---- MODULE Spec2Model ----
\* Model of the ml4rt example pipeline: the batch generators of
\* machine_learning/neural_net.py (cnn_generator / dense_net_generator), the
\* dict <-> tensor layout converters and example_io.concat_examples.
EXTENDS Integers, Sequences, FiniteSets, TLC

\* ---------------------------------------------------------------------------
\* Bounds of the model
\* ---------------------------------------------------------------------------
MaxFiles == 2
MaxBatch == 33
MaxYields == 2
HalfRun == 16
MaxExamples == 2
MaxHeights == 2
MaxVector == 2
MaxScalar == 2

\* Program constant: smallest batch size _check_generator_args accepts.
MIN_BATCH_SIZE == 32

VARIABLES
    option_dict,            \* generator options (batch size, time window)
    for_inference,          \* mode flag of the generator
    disk,                   \* example files on disk, in year order; a file is
                            \* the sequence of its examples' valid times
    pc,                     \* position of the generator
    training_example_dict,  \* normalization reference ("None" until read)
    num_norm_reads,         \* how often the normalization file was read
    example_file_names,     \* result of find_many_files: indices into disk
    file_index,
    example_index,          \* -1 models None (training mode)
    num_examples_in_memory,
    predictor_matrix,       \* [none, rows]: None or a matrix of rows
    target_matrix,          \* [none, rows]: None or a matrix of rows
    example_id_strings,     \* IDs accumulated for the current batch
    yielded,                \* last value handed out by yield
    num_yields,
    all_rows,               \* consumer side: rows of all batches so far
    all_id_strings,         \* consumer side: IDs of all batches so far
    num_reads_mod_n,        \* history: number of example-file reads so far,
                            \* modulo the number of files
    layout,                 \* state of the layout-converter specifications
    io                      \* state of the file input/output specifications

gen_vars == <<option_dict, for_inference, disk, pc, training_example_dict,
              num_norm_reads, example_file_names, file_index, example_index,
              num_examples_in_memory, predictor_matrix, target_matrix,
              example_id_strings, yielded, num_yields, all_rows,
              all_id_strings, num_reads_mod_n>>

vars == <<option_dict, for_inference, disk, pc, training_example_dict,
          num_norm_reads, example_file_names, file_index, example_index,
          num_examples_in_memory, predictor_matrix, target_matrix,
          example_id_strings, yielded, num_yields, all_rows,
          all_id_strings, num_reads_mod_n, layout, io>>

\* ---------------------------------------------------------------------------
\* Helpers
\* ---------------------------------------------------------------------------
Min(a, b) == IF a <= b THEN a ELSE b
Max(a, b) == IF a >= b THEN a ELSE b

RunLens == {0, 1, HalfRun}

\* A file of lead in-window examples, then mid examples before the window,
\* then tail in-window examples (valid times 1, 0, 1; the window is [1, 1]).
FileOf(lead, mid, tail) ==
    [i \in 1..(lead + mid + tail) |->
        IF i <= lead THEN 1 ELSE IF i <= lead + mid THEN 0 ELSE 1]

FileShapes ==
    {FileOf(a, b, c) : a \in {0, HalfRun}, b \in {0, HalfRun}, c \in RunLens}

\* example_io.subset_by_time: keeps the rows whose valid time is in the window.
InWindow(t, first_time_unix_sec, last_time_unix_sec) ==
    first_time_unix_sec <= t /\ t <= last_time_unix_sec

\* An example dictionary inside the generator: the sequence of its rows; a row
\* is [file, ex, time].  Training mode samples at random and tracks no IDs, so
\* a sampled row carries no identity (file 0, ex -1), only its presence.
RowsOfSlice(f, first, n) ==
    LET file == disk[f]
        last == Min(first + n, Len(file))
    IN  [j \in 1..Max(last - first, 0) |->
            [file |-> f, ex |-> first + j - 1, time |-> file[first + j]]]

\* example_io.reduce_sample_size with first_example_to_keep given: the
\* contiguous slice [first, first + n) of the file, clipped to its length.
reduce_sample_size_slice(f, num_examples_to_keep, first_example_to_keep) ==
    RowsOfSlice(f, first_example_to_keep, num_examples_to_keep)

subset_by_time(rows, first_time_unix_sec, last_time_unix_sec) ==
    SelectSeq(rows, LAMBDA r:
        InWindow(r.time, first_time_unix_sec, last_time_unix_sec))

NumInWindow(f) ==
    Cardinality({i \in 1..Len(disk[f]) :
        InWindow(disk[f][i], option_dict.first_time_unix_sec,
                 option_dict.last_time_unix_sec)})

\* example_io.reduce_sample_size with first_example_to_keep None followed by
\* subset_by_time: a random sample of min(n, file length) examples without
\* replacement, of which k are in the window; every feasible k can occur.
SampledInWindowCounts(f, num_examples_to_keep) ==
    LET size == Min(num_examples_to_keep, Len(disk[f]))
        inw  == NumInWindow(f)
        outw == Len(disk[f]) - inw
    IN  Max(0, size - outw) .. Min(size, inw)

SampledRows(f, k) == [j \in 1..k |-> [file |-> 0, ex |-> -1, time |-> 1]]

\* example_io.create_example_ids: one ID per row, identifying the example.
create_example_ids(rows) == [j \in 1..Len(rows) |-> <<rows[j].file, rows[j].ex>>]

\* _read_file_for_generator: the possible (example_dict, example_id_strings)
\* results of reading file f.
NumToKeepWholeBatch(batch_size, in_memory) == batch_size
NumToKeep(batch_size, in_memory) == batch_size - in_memory

_read_file_for_generator(f, num_examples_to_keep, first_example_to_keep) ==
    IF for_inference
    THEN LET reduced == reduce_sample_size_slice(
                            f, num_examples_to_keep, first_example_to_keep)
             kept == subset_by_time(reduced, option_dict.first_time_unix_sec,
                                    option_dict.last_time_unix_sec)
         IN  {[example_dict |-> kept, ids |-> create_example_ids(kept)]}
    ELSE {[example_dict |-> SampledRows(f, k), ids |-> <<>>] :
             k \in SampledInWindowCounts(f, num_examples_to_keep)}

\* predictors_dict_to_numpy / targets_dict_to_numpy inside the generator keep
\* one matrix row per example, in order.
RowsOfDict(example_dict) == example_dict

\* A matrix variable of the generator is None or an array of rows.
NoneMatrix == [none |-> TRUE, rows |-> <<>>]
Matrix(rows) == [none |-> FALSE, rows |-> rows]

\* `if predictor_matrix is None: ... = this + 0.  else: numpy.concatenate(...)`
Concatenate(matrix, this_rows) ==
    IF matrix.none THEN Matrix(this_rows) ELSE Matrix(matrix.rows \o this_rows)

\* example_id_strings += these_id_strings
AppendIdsInFront(ids, these_id_strings) == these_id_strings \o ids
AppendIds(ids, these_id_strings) == ids \o these_id_strings

\* predictor_matrix.shape[0]
NumRows(matrix) == Len(matrix.rows)

NothingYielded ==
    [none |-> TRUE, predictor_matrix |-> <<>>, target_matrix |-> <<>>,
     has_ids |-> FALSE, example_id_strings |-> <<>>]

\* ---------------------------------------------------------------------------
\* numpy arrays: a shape and a value for every index tuple (0-based)
\* ---------------------------------------------------------------------------
Indices(shape) ==
    IF Len(shape) = 1 THEN {<<i>> : i \in 0..(shape[1] - 1)}
    ELSE IF Len(shape) = 2
         THEN {<<i, j>> : i \in 0..(shape[1] - 1), j \in 0..(shape[2] - 1)}
         ELSE {<<i, j, k>> : i \in 0..(shape[1] - 1), j \in 0..(shape[2] - 1),
                             k \in 0..(shape[3] - 1)}

Array(shape, F(_)) == [shape |-> shape, val |-> [idx \in Indices(shape) |-> F(idx)]]

RECURSIVE Product(_)
Product(shape) ==
    IF Len(shape) = 0 THEN 1 ELSE shape[1] * Product(Tail(shape))

\* Python slice bounds: a negative bound counts from the end, -0 is 0.
PySliceBound(bound, length) ==
    IF bound < 0 THEN Max(length + bound, 0) ELSE Min(bound, length)

LastDim(a) == a.shape[Len(a.shape)]

WithLast(idx, c) == [idx EXCEPT ![Len(idx)] = c]
WithLastDim(shape, n) == [shape EXCEPT ![Len(shape)] = n]

\* a[..., start:stop]
SliceLastAxis(a, start, stop) ==
    LET lo == PySliceBound(start, LastDim(a))
        hi == PySliceBound(stop, LastDim(a))
    IN  Array(WithLastDim(a.shape, Max(hi - lo, 0)),
              LAMBDA idx: a.val[WithLast(idx, idx[Len(idx)] + lo)])

\* a[..., start:]  and  a[..., :stop]
SliceLastAxisFrom(a, start) == SliceLastAxis(a, start, LastDim(a))
SliceLastAxisTo(a, stop) == SliceLastAxis(a, 0, stop)

\* a[:, j, :] for a 3-D array; j may be negative.
TakeAxis1(a, j) ==
    LET jj == IF j < 0 THEN a.shape[2] + j ELSE j
    IN  Array(<<a.shape[1], a.shape[3]>>,
              LAMBDA idx: a.val[<<idx[1], jj, idx[2]>>])

\* a[:, j, c] for a 3-D array: a 1-D array.
TakeAxis1Channel(a, j, c) ==
    LET jj == IF j < 0 THEN a.shape[2] + j ELSE j
    IN  Array(<<a.shape[1]>>, LAMBDA idx: a.val[<<idx[1], jj, c>>])

\* numpy.expand_dims(a, axis=1) of a 2-D array.
ExpandDimsAxis1(a) ==
    Array(<<a.shape[1], 1, a.shape[2]>>, LAMBDA idx: a.val[<<idx[1], idx[3]>>])

\* numpy.repeat(a, repeats, axis=1) of a 3-D array.
RepeatAxis1(a, repeats) ==
    Array(<<a.shape[1], a.shape[2] * repeats, a.shape[3]>>,
          LAMBDA idx: a.val[<<idx[1], idx[2] \div repeats, idx[3]>>])

\* numpy.concatenate((b, a), axis=-1): the two parts in the wrong order.
ConcatenateLastAxisSwapped(a, b) ==
    Array(WithLastDim(a.shape, LastDim(a) + LastDim(b)),
          LAMBDA idx: IF idx[Len(idx)] < LastDim(b)
                      THEN b.val[idx]
                      ELSE a.val[WithLast(idx, idx[Len(idx)] - LastDim(b))])

\* numpy.concatenate((a, b), axis=-1)
ConcatenateLastAxis(a, b) ==
    Array(WithLastDim(a.shape, LastDim(a) + LastDim(b)),
          LAMBDA idx: IF idx[Len(idx)] < LastDim(a)
                      THEN a.val[idx]
                      ELSE b.val[WithLast(idx, idx[Len(idx)] - LastDim(a))])

\* numpy.concatenate((b, a), axis=0): the rows of b first.
ConcatenateAxis0Swapped(a, b) ==
    Array([a.shape EXCEPT ![1] = a.shape[1] + b.shape[1]],
          LAMBDA idx: IF idx[1] < b.shape[1]
                      THEN b.val[idx]
                      ELSE a.val[[idx EXCEPT ![1] = idx[1] - b.shape[1]]])

\* numpy.concatenate((a, b), axis=0)
ConcatenateAxis0(a, b) ==
    Array([a.shape EXCEPT ![1] = a.shape[1] + b.shape[1]],
          LAMBDA idx: IF idx[1] < a.shape[1]
                      THEN a.val[idx]
                      ELSE b.val[[idx EXCEPT ![1] = idx[1] - a.shape[1]]])

\* numpy.stack((b, a), axis=-1): the two columns in the wrong order.
StackLastAxisSwapped(a, b) ==
    Array(<<a.shape[1], 2>>,
          LAMBDA idx: IF idx[2] = 0 THEN b.val[<<idx[1]>>] ELSE a.val[<<idx[1]>>])

\* numpy.stack((a, b), axis=-1) of two 1-D arrays.
StackLastAxis(a, b) ==
    Array(<<a.shape[1], 2>>,
          LAMBDA idx: IF idx[2] = 0 THEN a.val[<<idx[1]>>] ELSE b.val[<<idx[1]>>])

\* Position of an index tuple in Fortran order (first index varies fastest),
\* and the index tuple at a position.
FortranPosition(idx, shape) ==
    IF Len(shape) = 1 THEN idx[1]
    ELSE IF Len(shape) = 2 THEN idx[1] + shape[1] * idx[2]
    ELSE idx[1] + shape[1] * (idx[2] + shape[2] * idx[3])

FortranIndex(pos, shape) ==
    IF Len(shape) = 1 THEN <<pos>>
    ELSE IF Len(shape) = 2 THEN <<pos % shape[1], pos \div shape[1]>>
    ELSE <<pos % shape[1], (pos \div shape[1]) % shape[2],
           pos \div (shape[1] * shape[2])>>

\* Position in C order (last index varies fastest).
CPosition(idx, shape) ==
    IF Len(shape) = 1 THEN idx[1]
    ELSE IF Len(shape) = 2 THEN idx[1] * shape[2] + idx[2]
    ELSE (idx[1] * shape[2] + idx[2]) * shape[3] + idx[3]

CIndex(pos, shape) ==
    IF Len(shape) = 1 THEN <<pos>>
    ELSE IF Len(shape) = 2 THEN <<pos \div shape[2], pos % shape[2]>>
    ELSE <<pos \div (shape[2] * shape[3]), (pos \div shape[3]) % shape[2],
           pos % shape[3]>>

\* numpy.reshape(a, new_shape, order='F'); ValueError when the sizes differ.
ReshapeC(a, new_shape) ==
    Array(new_shape, LAMBDA idx: a.val[CIndex(CPosition(idx, new_shape), a.shape)])
ReshapeF(a, new_shape) ==
    Array(new_shape,
          LAMBDA idx: a.val[FortranIndex(FortranPosition(idx, new_shape), a.shape)])

CanReshape(a, new_shape) == Product(a.shape) = Product(new_shape)

\* ---------------------------------------------------------------------------
\* Initial state of a generator: options and mode chosen by the caller, files
\* on disk; nothing read yet.
\* ---------------------------------------------------------------------------
BatchSizes == {1, MIN_BATCH_SIZE - 1} \cup (MIN_BATCH_SIZE..MaxBatch)

GenInit ==
    /\ \E b \in BatchSizes :
          option_dict = [num_examples_per_batch |-> b,
                         first_time_unix_sec |-> 1,
                         last_time_unix_sec |-> 1]
    /\ for_inference \in BOOLEAN
    /\ \E n \in 0..MaxFiles : disk \in [1..n -> FileShapes]
    /\ pc = "check_args"
    /\ training_example_dict = "None"
    /\ num_norm_reads = 0
    /\ example_file_names = <<>>
    /\ file_index = 0
    /\ example_index = -1
    /\ num_examples_in_memory = 0
    /\ predictor_matrix = NoneMatrix
    /\ target_matrix = NoneMatrix
    /\ example_id_strings = <<>>
    /\ yielded = NothingYielded
    /\ num_yields = 0
    /\ all_rows = <<>>
    /\ all_id_strings = <<>>
    /\ num_reads_mod_n = 0

Init ==
    /\ GenInit
    /\ layout = "None"
    /\ io = "None"

\* ---------------------------------------------------------------------------
\* Generator actions
\* ---------------------------------------------------------------------------
\* _check_generator_args: assert_is_geq(batch size, 32), whatever the mode.
ArgsAccepted(batch_size, inference) == batch_size >= MIN_BATCH_SIZE

CheckGeneratorArgs ==
    /\ pc = "check_args"
    /\ pc' = IF ArgsAccepted(option_dict.num_examples_per_batch, for_inference)
             THEN "read_norm" ELSE "args_error"
    /\ UNCHANGED <<option_dict, for_inference, disk, training_example_dict,
                   num_norm_reads, example_file_names, file_index,
                   example_index, num_examples_in_memory, predictor_matrix,
                   target_matrix, example_id_strings, yielded, num_yields,
                   all_rows, all_id_strings, layout, io,
                   num_reads_mod_n>>

\* training_example_dict = example_io.read_file(normalization_file_name)
ReadNormalizationFile ==
    /\ pc = "read_norm"
    /\ training_example_dict' = "reference"
    /\ num_norm_reads' = num_norm_reads + 1
    /\ pc' = "find_files"
    /\ UNCHANGED <<option_dict, for_inference, disk, example_file_names,
                   file_index, example_index, num_examples_in_memory,
                   predictor_matrix, target_matrix, example_id_strings,
                   yielded, num_yields, all_rows, all_id_strings, layout, io,
                   num_reads_mod_n>>

\* example_io.find_many_files(raise_error_if_any_missing=False): the existing
\* files of the window's years; an error if there is none.  Then the
\* initialisation of file_index and example_index.
FindManyFiles ==
    /\ pc = "find_files"
    /\ IF Len(disk) = 0
       THEN /\ pc' = "files_error"
            /\ UNCHANGED <<example_file_names, file_index, example_index>>
       ELSE /\ example_file_names' = [i \in 1..Len(disk) |-> i]
            /\ file_index' = 0
            /\ example_index' = IF for_inference THEN 0 ELSE -1
            /\ pc' = "outer"
    /\ UNCHANGED <<option_dict, for_inference, disk, training_example_dict,
                   num_norm_reads, num_examples_in_memory, predictor_matrix,
                   target_matrix, example_id_strings, yielded, num_yields,
                   all_rows, all_id_strings, layout, io,
                   num_reads_mod_n>>

\* Top of `while True`: exhaustion check, then reset of the accumulators.
OuterLoop ==
    /\ pc = "outer"
    /\ IF for_inference /\ file_index >= Len(example_file_names)
       THEN /\ pc' = "stopped"
            /\ UNCHANGED <<num_examples_in_memory, predictor_matrix,
                           target_matrix, example_id_strings>>
       ELSE /\ num_examples_in_memory' = 0
            /\ predictor_matrix' = NoneMatrix
            /\ target_matrix' = NoneMatrix
            /\ example_id_strings' = <<>>
            /\ pc' = "inner"
    /\ UNCHANGED <<option_dict, for_inference, disk, training_example_dict,
                   num_norm_reads, example_file_names, file_index,
                   example_index, yielded, num_yields, all_rows,
                   all_id_strings, layout, io,
                   num_reads_mod_n>>

\* `if file_index == len(example_file_names): file_index = 0` (the training
\* branch of the end-of-list test).
WrapFileIndexEarly(index, num_files) ==
    IF index >= num_files - 1 THEN 0 ELSE index
WrapFileIndex(index, num_files) ==
    IF index = num_files THEN 0 ELSE index

\* Top of `while num_examples_in_memory < num_examples_per_batch`: the loop
\* test and the end-of-list test (break or stop in inference mode, wrap to the
\* first file in training mode).
LoopTest ==
    /\ pc = "inner"
    /\ IF num_examples_in_memory >= option_dict.num_examples_per_batch
       THEN /\ pc' = "yield"
            /\ UNCHANGED file_index
       ELSE IF for_inference /\ file_index = Len(example_file_names)
            THEN /\ pc' = IF predictor_matrix.none
                          THEN "stopped" ELSE "yield"
                 /\ UNCHANGED file_index
            ELSE /\ file_index' =
                        WrapFileIndex(file_index, Len(example_file_names))
                 /\ pc' = "read"
    /\ UNCHANGED <<option_dict, for_inference, disk, training_example_dict,
                   num_norm_reads, example_file_names, example_index,
                   num_examples_in_memory, predictor_matrix, target_matrix,
                   example_id_strings, yielded, num_yields, all_rows,
                   all_id_strings, layout, io,
                   num_reads_mod_n>>

\* Rest of the loop body: read example_file_names[file_index], advance the
\* position, append the new rows (and IDs) to the batch.
ReadFile ==
    /\ pc = "read"
    /\ \E result \in _read_file_for_generator(
                         example_file_names[file_index + 1],
                         NumToKeep(option_dict.num_examples_per_batch,
                                   num_examples_in_memory),
                         example_index) :
        LET this_num_examples == Len(result.example_dict)
        IN  /\ IF for_inference
               THEN /\ IF this_num_examples = 0
                       THEN /\ file_index' = file_index + 1
                            /\ example_index' = 0
                       ELSE /\ file_index' = file_index
                            /\ example_index' = example_index + this_num_examples
                    /\ example_id_strings' =
                           AppendIds(example_id_strings, result.ids)
               ELSE /\ file_index' = file_index + 1
                    /\ UNCHANGED <<example_index, example_id_strings>>
            /\ predictor_matrix' =
                   Concatenate(predictor_matrix, RowsOfDict(result.example_dict))
            /\ target_matrix' =
                   Concatenate(target_matrix, RowsOfDict(result.example_dict))
            /\ num_examples_in_memory' = NumRows(predictor_matrix')
            /\ pc' = "inner"
    /\ num_reads_mod_n' = (num_reads_mod_n + 1) % Len(example_file_names)
    /\ UNCHANGED <<option_dict, for_inference, disk, training_example_dict,
                   num_norm_reads, example_file_names, yielded, num_yields,
                   all_rows, all_id_strings, layout, io>>

\* The yield statement; in inference mode the caller (apply_neural_net._run)
\* appends the batch and its IDs to what it has collected.
YieldBatch ==
    /\ pc = "yield"
    /\ yielded' = [none |-> FALSE,
                   predictor_matrix |-> predictor_matrix.rows,
                   target_matrix |-> target_matrix.rows,
                   has_ids |-> for_inference,
                   example_id_strings |->
                       IF for_inference THEN example_id_strings ELSE <<>>]
    /\ num_yields' = num_yields + 1
    /\ IF for_inference
       THEN /\ all_rows' = all_rows \o predictor_matrix.rows
            /\ all_id_strings' = all_id_strings \o example_id_strings
       ELSE UNCHANGED <<all_rows, all_id_strings>>
    /\ pc' = "suspended"
    /\ UNCHANGED <<option_dict, for_inference, disk, training_example_dict,
                   num_norm_reads, example_file_names, file_index,
                   example_index, num_examples_in_memory, predictor_matrix,
                   target_matrix, example_id_strings, layout, io,
                   num_reads_mod_n>>

\* The yield is inside `while True`: a resumed generator goes on at the top
\* of that loop, after the code that reads the normalization file and finds
\* the example files.
ResumeAtStart == "read_norm"
ResumeAt == "outer"

\* The caller asks for the next batch: next(generator).
NextCall ==
    /\ pc = "suspended"
    /\ for_inference \/ num_yields < MaxYields
    /\ pc' = ResumeAt
    /\ UNCHANGED <<option_dict, for_inference, disk, training_example_dict,
                   num_norm_reads, example_file_names, file_index,
                   example_index, num_examples_in_memory, predictor_matrix,
                   target_matrix, example_id_strings, yielded, num_yields,
                   all_rows, all_id_strings, layout, io,
                   num_reads_mod_n>>

\* ---------------------------------------------------------------------------
\* Example dictionaries (example_io) and the layout converters (neural_net)
\* ---------------------------------------------------------------------------
SCALAR_PREDICTOR_NAMES ==
    <<"zenith_angle_radians", "latitude_deg_n", "longitude_deg_e", "albedo",
      "liquid_water_path_kg_m02", "ice_water_path_kg_m02">>
VECTOR_PREDICTOR_NAMES ==
    <<"pressure_pascals", "temperature_kelvins", "specific_humidity_kg_kg01",
      "liquid_water_content_kg_m02", "ice_water_content_kg_m02">>
SHORTWAVE_HEATING_RATE_NAME == "shortwave_heating_rate_K_s01"
SHORTWAVE_DOWN_FLUX_NAME == "shortwave_down_flux_W_m02"
SHORTWAVE_UP_FLUX_NAME == "shortwave_up_flux_W_m02"
SCALAR_TARGET_NAMES ==
    <<"shortwave_surface_down_flux_W_m02", "shortwave_toa_up_flux_W_m02">>
VECTOR_TARGET_NAMES ==
    <<SHORTWAVE_DOWN_FLUX_NAME, SHORTWAVE_UP_FLUX_NAME,
      SHORTWAVE_HEATING_RATE_NAME>>

\* Orders in which a caller may list the vector targets.
VectorTargetOrders ==
    {VECTOR_TARGET_NAMES,
     <<SHORTWAVE_HEATING_RATE_NAME, SHORTWAVE_UP_FLUX_NAME,
       SHORTWAVE_DOWN_FLUX_NAME>>}

Prefix(seq, n) == SubSeq(seq, 1, Min(n, Len(seq)))

\* list.index(name): 0-based position, -1 when the name is absent (the code
\* raises ValueError then).
IndexOf(names, name) ==
    IF \E i \in 1..Len(names) : names[i] = name
    THEN (CHOOSE i \in 1..Len(names) :
              names[i] = name /\ \A j \in 1..(i - 1) : names[j] # name) - 1
    ELSE -1

\* An example dictionary in the format of example_io.read_file, with n
\* examples, h heights and the given field lists.  Every matrix entry is a
\* number that encodes dictionary d, matrix, example, height and field, so
\* that no two entries of the dictionaries of one state are equal.
ExampleDict(d, n, h, sp_names, vp_names, st_names, vt_names, height_shift) ==
    [scalar_predictor_names |-> sp_names,
     vector_predictor_names |-> vp_names,
     scalar_target_names |-> st_names,
     vector_target_names |-> vt_names,
     scalar_predictor_matrix |->
         Array(<<n, Len(sp_names)>>,
               LAMBDA idx: 10000 * d + 1000 + 100 * idx[1] + idx[2]),
     vector_predictor_matrix |->
         Array(<<n, h, Len(vp_names)>>,
               LAMBDA idx: 10000 * d + 2000 + 100 * idx[1] + 10 * idx[2] + idx[3]),
     scalar_target_matrix |->
         Array(<<n, Len(st_names)>>,
               LAMBDA idx: 10000 * d + 3000 + 100 * idx[1] + idx[2]),
     vector_target_matrix |->
         Array(<<n, h, Len(vt_names)>>,
               LAMBDA idx: 10000 * d + 4000 + 100 * idx[1] + 10 * idx[2] + idx[3]),
     valid_times_unix_sec |->
         Array(<<n>>, LAMBDA idx: 10000 * d + 5000 + 100 * idx[1]),
     heights_m_agl |->
         Array(<<h>>, LAMBDA idx: 100 * (idx[1] + 1) + height_shift),
     standard_atmo_flags |->
         Array(<<n>>, LAMBDA idx: 1 + ((d + idx[1]) % 6))]

\* predictors_dict_to_numpy
predictors_dict_to_numpy(example_dict, for_cnn) ==
    IF for_cnn
    THEN LET num_heights == example_dict.heights_m_agl.shape[1]
             scalar_predictor_matrix ==
                 RepeatAxis1(
                     ExpandDimsAxis1(example_dict.scalar_predictor_matrix),
                     num_heights)
         IN  ConcatenateLastAxis(example_dict.vector_predictor_matrix,
                                 scalar_predictor_matrix)
    ELSE LET vector_predictor_matrix == example_dict.vector_predictor_matrix
             num_examples == vector_predictor_matrix.shape[1]
             num_heights == vector_predictor_matrix.shape[2]
             num_fields == vector_predictor_matrix.shape[3]
         IN  ConcatenateLastAxis(
                 ReshapeF(vector_predictor_matrix,
                          <<num_examples, num_heights * num_fields>>),
                 example_dict.scalar_predictor_matrix)

\* A converter's result: the two matrices, or the error it raised.
Matrices(scalar_matrix, vector_matrix) ==
    [error |-> "none", scalar |-> scalar_matrix, vector |-> vector_matrix]
Raised(error) == [error |-> error]

\* Shared tail of predictors_numpy_to_dict and targets_numpy_to_dict for the
\* dense layout: split off the last num_scalar columns, reshape the rest.
DenseMatrixToDict(matrix, num_scalar, num_heights, num_vector) ==
    LET scalar_matrix == SliceLastAxisFrom(matrix, -num_scalar)
        vector_matrix == SliceLastAxisTo(matrix, -num_scalar)
        num_examples == vector_matrix.shape[1]
        new_shape == <<num_examples, num_heights, num_vector>>
    IN  IF CanReshape(vector_matrix, new_shape)
        THEN Matrices(scalar_matrix, ReshapeF(vector_matrix, new_shape))
        ELSE Raised("ValueError")

\* predictors_numpy_to_dict
predictors_numpy_to_dict(matrix, example_dict, for_cnn) ==
    LET num_scalar_predictors == Len(example_dict.scalar_predictor_names)
    IN  IF for_cnn
        THEN Matrices(
                 SliceLastAxisFrom(TakeAxis1(matrix, 0), -num_scalar_predictors),
                 SliceLastAxisTo(matrix, -num_scalar_predictors))
        ELSE DenseMatrixToDict(matrix, num_scalar_predictors,
                               example_dict.heights_m_agl.shape[1],
                               Len(example_dict.vector_predictor_names))

\* targets_dict_to_numpy: the list of target matrices, or the error raised.
TargetList(matrices) == [error |-> "none", matrices |-> matrices]

targets_dict_to_numpy(example_dict, for_cnn, use_custom_cnn_loss) ==
    LET vector_target_matrix == example_dict.vector_target_matrix
        scalar_target_matrix == example_dict.scalar_target_matrix
    IN  IF for_cnn
        THEN IF ~use_custom_cnn_loss
             THEN TargetList(<<vector_target_matrix, scalar_target_matrix>>)
             ELSE LET up_flux_channel_index ==
                          IndexOf(example_dict.vector_target_names,
                                  SHORTWAVE_UP_FLUX_NAME)
                      down_flux_channel_index ==
                          IndexOf(example_dict.vector_target_names,
                                  SHORTWAVE_DOWN_FLUX_NAME)
                  IN  IF up_flux_channel_index < 0 \/ down_flux_channel_index < 0
                      THEN Raised("ValueError")
                      ELSE TargetList(
                               <<vector_target_matrix,
                                 ConcatenateLastAxis(
                                     StackLastAxis(
                                         TakeAxis1Channel(vector_target_matrix,
                                             -1, up_flux_channel_index),
                                         TakeAxis1Channel(vector_target_matrix,
                                             0, down_flux_channel_index)),
                                     scalar_target_matrix)>>)
        ELSE LET num_examples == vector_target_matrix.shape[1]
                 num_heights == vector_target_matrix.shape[2]
                 num_fields == vector_target_matrix.shape[3]
             IN  TargetList(
                     <<ConcatenateLastAxis(
                           ReshapeF(vector_target_matrix,
                                    <<num_examples, num_heights * num_fields>>),
                           scalar_target_matrix)>>)

\* targets_numpy_to_dict
targets_numpy_to_dict(target_matrices, example_dict, for_cnn) ==
    IF for_cnn
    THEN Matrices(target_matrices[2], target_matrices[1])
    ELSE DenseMatrixToDict(target_matrices[1],
                           Len(example_dict.scalar_target_names),
                           example_dict.heights_m_agl.shape[1],
                           Len(example_dict.vector_target_names))

\* example_io.concat_examples: the first dictionary, then for every further
\* dictionary and every key of DICTIONARY_KEYS either the assertion that the
\* name lists agree or numpy.concatenate(..., axis=0).
NamesMatch(a, b) ==
    /\ a.scalar_predictor_names = b.scalar_predictor_names
    /\ a.vector_predictor_names = b.vector_predictor_names
    /\ a.scalar_target_names = b.scalar_target_names
    /\ a.vector_target_names = b.vector_target_names

ConcatTwo(a, b) ==
    [a EXCEPT
        !.scalar_predictor_matrix =
            ConcatenateAxis0(a.scalar_predictor_matrix, b.scalar_predictor_matrix),
        !.vector_predictor_matrix =
            ConcatenateAxis0(a.vector_predictor_matrix, b.vector_predictor_matrix),
        !.scalar_target_matrix =
            ConcatenateAxis0(a.scalar_target_matrix, b.scalar_target_matrix),
        !.vector_target_matrix =
            ConcatenateAxis0(a.vector_target_matrix, b.vector_target_matrix),
        !.valid_times_unix_sec =
            ConcatenateAxis0(a.valid_times_unix_sec, b.valid_times_unix_sec),
        !.heights_m_agl =
            ConcatenateAxis0(a.heights_m_agl, b.heights_m_agl),
        !.standard_atmo_flags =
            ConcatenateAxis0(a.standard_atmo_flags, b.standard_atmo_flags)]

RECURSIVE ConcatFrom(_, _, _)
ConcatFrom(example_dict, example_dicts, i) ==
    IF i > Len(example_dicts)
    THEN [error |-> "none", example_dict |-> example_dict]
    ELSE IF ~NamesMatch(example_dict, example_dicts[i])
         THEN Raised("AssertionError")
         ELSE ConcatFrom(ConcatTwo(example_dict, example_dicts[i]),
                         example_dicts, i + 1)

concat_examples(example_dicts) == ConcatFrom(example_dicts[1], example_dicts, 2)

\* ---------------------------------------------------------------------------
\* Specification of the converters: some example dictionaries are given and
\* one conversion or concatenation is applied to them.  The first dictionary
\* has at least one example, one vector predictor and one vector target (what
\* a network needs); scalar fields may be absent.  A second dictionary has
\* the same field counts, its own number of examples (possibly none), and may
\* differ in the order of its vector targets or in its height grid.  There
\* may be a third dictionary of one example, after a second with the schema
\* of the first and at most one example.
\* ---------------------------------------------------------------------------
LayoutInputs(n, h, pv, ps, tv, ts, order) ==
    LET sp == Prefix(SCALAR_PREDICTOR_NAMES, ps)
        vp == Prefix(VECTOR_PREDICTOR_NAMES, pv)
        st == Prefix(SCALAR_TARGET_NAMES, ts)
        first == ExampleDict(1, n, h, sp, vp, st, Prefix(order, tv), 0)
    IN  {<<first>>} \cup
        {<<first,
           ExampleDict(2, n2, h, sp, vp, st, Prefix(order2, tv), shift2)>> :
             n2 \in 0..MaxExamples, order2 \in VectorTargetOrders,
             shift2 \in {0, 1}} \cup
        {<<first,
           ExampleDict(2, n2, h, sp, vp, st, Prefix(order, tv), 0),
           ExampleDict(3, 1, h, sp, vp, st, Prefix(order, tv), 0)>> :
             n2 \in 0..1}

IdleGenerator ==
    /\ option_dict = [num_examples_per_batch |-> MIN_BATCH_SIZE,
                      first_time_unix_sec |-> 1, last_time_unix_sec |-> 1]
    /\ for_inference = FALSE
    /\ disk = <<>>
    /\ pc = "idle"
    /\ training_example_dict = "None"
    /\ num_norm_reads = 0
    /\ example_file_names = <<>>
    /\ file_index = 0
    /\ example_index = -1
    /\ num_examples_in_memory = 0
    /\ predictor_matrix = NoneMatrix
    /\ target_matrix = NoneMatrix
    /\ example_id_strings = <<>>
    /\ yielded = NothingYielded
    /\ num_yields = 0
    /\ all_rows = <<>>
    /\ all_id_strings = <<>>
    /\ num_reads_mod_n = 0

LayoutInit ==
    /\ IdleGenerator
    /\ io = "None"
    /\ \E n \in 1..MaxExamples, h \in 1..MaxHeights, pv \in 1..MaxVector,
          ps \in 0..MaxScalar, tv \in 1..MaxVector, ts \in 0..MaxScalar,
          order \in VectorTargetOrders :
          \E example_dicts \in LayoutInputs(n, h, pv, ps, tv, ts, order) :
              layout = [stage |-> "dicts", example_dicts |-> example_dicts]

\* predictor_matrix = predictors_dict_to_numpy(example_dict, for_cnn)
PredictorsDictToNumpy ==
    /\ layout.stage = "dicts"
    /\ \E for_cnn \in BOOLEAN :
          layout' = [stage |-> "predictor_matrix",
                     example_dicts |-> layout.example_dicts,
                     for_cnn |-> for_cnn,
                     matrix |-> predictors_dict_to_numpy(
                                    layout.example_dicts[1], for_cnn)]
    /\ UNCHANGED <<gen_vars, io>>

\* predictors_numpy_to_dict(predictor_matrix, example_dict, for_cnn)
PredictorsNumpyToDict ==
    /\ layout.stage = "predictor_matrix"
    /\ layout' = [stage |-> "predictor_dict",
                  example_dicts |-> layout.example_dicts,
                  for_cnn |-> layout.for_cnn,
                  matrix |-> layout.matrix,
                  result |-> predictors_numpy_to_dict(
                                 layout.matrix, layout.example_dicts[1],
                                 layout.for_cnn)]
    /\ UNCHANGED <<gen_vars, io>>

\* target_matrices = targets_dict_to_numpy(example_dict, for_cnn, use_custom)
TargetsDictToNumpy ==
    /\ layout.stage = "dicts"
    /\ \E for_cnn \in BOOLEAN, use_custom_cnn_loss \in BOOLEAN :
          layout' = [stage |-> "target_matrices",
                     example_dicts |-> layout.example_dicts,
                     for_cnn |-> for_cnn,
                     use_custom_cnn_loss |-> use_custom_cnn_loss,
                     target_list |-> targets_dict_to_numpy(
                         layout.example_dicts[1], for_cnn, use_custom_cnn_loss)]
    /\ UNCHANGED <<gen_vars, io>>

\* targets_numpy_to_dict(target_matrices, example_dict, for_cnn)
TargetsNumpyToDict ==
    /\ layout.stage = "target_matrices"
    /\ layout.target_list.error = "none"
    /\ layout' = [stage |-> "target_dict",
                  example_dicts |-> layout.example_dicts,
                  for_cnn |-> layout.for_cnn,
                  use_custom_cnn_loss |-> layout.use_custom_cnn_loss,
                  target_list |-> layout.target_list,
                  result |-> targets_numpy_to_dict(
                                 layout.target_list.matrices,
                                 layout.example_dicts[1], layout.for_cnn)]
    /\ UNCHANGED <<gen_vars, io>>

\* ---------------------------------------------------------------------------
\* apply_cnn: applies a trained CNN to a predictor matrix in batches of
\* examples and joins the outputs.
\* ---------------------------------------------------------------------------
\* _check_inference_args: a batch size of None (-1 here) means all examples;
\* any other must be at least MIN_INFERENCE_BATCH_SIZE; the result is capped
\* at the number of examples.
MIN_INFERENCE_BATCH_SIZE == 100

InferenceBatchSizes == {-1, MIN_INFERENCE_BATCH_SIZE}

_check_inference_args(matrix, num_examples_per_batch) ==
    Min(IF num_examples_per_batch = -1 THEN matrix.shape[1]
        ELSE num_examples_per_batch,
        matrix.shape[1])

\* predictor_matrix[first:last + 1, ...] of a 3-D array.
TakeRows(a, first, last) ==
    Array(<<last - first + 1, a.shape[2], a.shape[3]>>,
          LAMBDA idx: a.val[[idx EXCEPT ![1] = idx[1] + first]])

\* model_object.predict for a CNN made by make_cnn: for each example a vector
\* output (heights x vector targets) and a scalar output.  A network made
\* with the custom loss has two more scalar outputs in front (highest-level
\* up flux, lowest-level down flux).  The outputs of an example depend on its
\* predictors only; the value stands for "the prediction for this example and
\* this output".
NumScalarOutputs(num_scalar_targets, use_custom_loss) ==
    IF use_custom_loss THEN num_scalar_targets + 2 ELSE num_scalar_targets

Predict(matrix, num_vector_targets, num_scalar_outputs) ==
    [vector |->
         Array(<<matrix.shape[1], matrix.shape[2], num_vector_targets>>,
               LAMBDA idx: 100 * matrix.val[<<idx[1], idx[2], 0>>] + 50 + idx[3]),
     scalar |->
         Array(<<matrix.shape[1], num_scalar_outputs>>,
               LAMBDA idx: 100 * matrix.val[<<idx[1], 0, 0>>] + idx[2])]

\* The loop of apply_cnn over batches of examples.
RECURSIVE ApplyInBatches(_, _, _, _, _, _)
ApplyInBatches(matrix, i, num_examples_per_batch, outputs, num_vector_targets, num_scalar_outputs) ==
    IF i >= matrix.shape[1] THEN outputs
    ELSE LET this_first_index == i
             this_last_index ==
                 Min(i + num_examples_per_batch - 1, matrix.shape[1] - 1)
             these_outputs ==
                 Predict(TakeRows(matrix, this_first_index, this_last_index),
                         num_vector_targets, num_scalar_outputs)
         IN  ApplyInBatches(
                 matrix, i + num_examples_per_batch, num_examples_per_batch,
                 IF outputs.none
                 THEN [none |-> FALSE, vector |-> these_outputs.vector,
                       scalar |-> these_outputs.scalar]
                 ELSE [none |-> FALSE,
                       vector |-> ConcatenateAxis0(outputs.vector,
                                                   these_outputs.vector),
                       scalar |-> ConcatenateAxis0(outputs.scalar,
                                                   these_outputs.scalar)],
                 num_vector_targets, num_scalar_outputs)

\* scalar_prediction_matrix[:, :-2]: the last two columns dropped instead.
StripBoundaryColumnsAtEnd(scalar_prediction_matrix) ==
    SliceLastAxisTo(scalar_prediction_matrix, -2)

\* scalar_prediction_matrix[:, 2:]
StripBoundaryColumns(scalar_prediction_matrix) ==
    SliceLastAxisFrom(scalar_prediction_matrix, 2)

apply_cnn(matrix, num_examples_per_batch, used_custom_loss, num_vector_targets, num_scalar_targets) ==
    LET batch_size == _check_inference_args(matrix, num_examples_per_batch)
        outputs ==
            ApplyInBatches(matrix, 0, batch_size, [none |-> TRUE],
                           num_vector_targets,
                           NumScalarOutputs(num_scalar_targets,
                                            used_custom_loss))
    IN  [vector |-> outputs.vector,
         scalar |-> IF used_custom_loss
                    THEN StripBoundaryColumns(outputs.scalar)
                    ELSE outputs.scalar]

\* vector_prediction_matrix, scalar_prediction_matrix = apply_cnn(...), for the
\* network whose targets are those of the example dictionary.
ApplyCnn ==
    /\ layout.stage = "predictor_matrix"
    /\ layout.for_cnn
    /\ \E used_custom_loss \in BOOLEAN,
          num_examples_per_batch \in InferenceBatchSizes :
          layout' = [stage |-> "predictions",
                     example_dicts |-> layout.example_dicts,
                     for_cnn |-> TRUE,
                     matrix |-> layout.matrix,
                     used_custom_loss |-> used_custom_loss,
                     result |-> apply_cnn(
                         layout.matrix, num_examples_per_batch,
                         used_custom_loss,
                         Len(layout.example_dicts[1].vector_target_names),
                         Len(layout.example_dicts[1].scalar_target_names))]
    /\ UNCHANGED <<gen_vars, io>>

\* example_dict = concat_examples(example_dicts)
ConcatExamples ==
    /\ layout.stage = "dicts"
    /\ layout' = [stage |-> "concatenated",
                  example_dicts |-> layout.example_dicts,
                  result |-> concat_examples(layout.example_dicts)]
    /\ UNCHANGED <<gen_vars, io>>

LayoutNext ==
    \/ PredictorsDictToNumpy
    \/ PredictorsNumpyToDict
    \/ TargetsDictToNumpy
    \/ TargetsNumpyToDict
    \/ ConcatExamples
    \/ ApplyCnn

LayoutSpec == LayoutInit /\ [][LayoutNext]_vars

GeneratorStep ==
    \/ CheckGeneratorArgs
    \/ ReadNormalizationFile
    \/ FindManyFiles
    \/ OuterLoop
    \/ LoopTest
    \/ ReadFile
    \/ YieldBatch

Next ==
    \/ CheckGeneratorArgs
    \/ ReadNormalizationFile
    \/ FindManyFiles
    \/ OuterLoop
    \/ LoopTest
    \/ ReadFile
    \/ YieldBatch
    \/ NextCall

Spec == Init /\ [][Next]_vars

\* The generator in one mode only.
InferenceInit == Init /\ for_inference
TrainingInit == Init /\ ~for_inference
InferenceSpec == InferenceInit /\ [][Next]_vars
TrainingSpec == TrainingInit /\ [][Next]_vars

\* Once called the generator runs on to its next yield (it is ordinary
\* sequential code).  The inference callers (apply_neural_net.py lines
\* 308-336) ask for batches in a "while True" loop until the generator is
\* exhausted; a training caller may stop asking at any time.
FairInferenceSpec ==
    InferenceSpec /\ WF_vars(GeneratorStep) /\ WF_vars(NextCall)
FairTrainingSpec == TrainingSpec /\ WF_vars(GeneratorStep)

\* ---------------------------------------------------------------------------
\* File input and output: prediction files (prediction_io), RRTM files
\* (rrtm_io) and the file finders (example_io, rrtm_io)
\* ---------------------------------------------------------------------------
\* A Python value that is either None or a string.
PyNone == [none |-> TRUE]
PyStr(s) == [none |-> FALSE, str |-> s]

\* A Python dictionary is a function on its keys; d[k] = v and `k in d`.
SetItem(d, k, v) == (k :> v) @@ d
HasKey(d, k) == k \in DOMAIN d

MODEL_FILE_KEY == "model_file_name"
ISOTONIC_MODEL_FILE_KEY == "isotonic_model_file_name"
SCALAR_TARGETS_KEY == "scalar_target_matrix"
SCALAR_PREDICTIONS_KEY == "scalar_prediction_matrix"
VECTOR_TARGETS_KEY == "vector_target_matrix"
VECTOR_PREDICTIONS_KEY == "vector_prediction_matrix"
HEIGHTS_KEY == "heights_m_agl"
EXAMPLE_IDS_KEY == "example_id_strings"

\* Arguments of prediction_io.write_file.  A matrix is the sequence of its
\* rows; the row of example e in matrix m is <<m, e>>, and a matrix with no
\* scalar target has rows of width 0, all equal to <<>>.
ModelFileNames == {"model.h5", "other/model.h5"}
IsotonicModelFileNames ==
    {PyNone, PyStr(""), PyStr("isotonic.dill"), PyStr("other/isotonic.dill")}
MatrixRows(key, ids, width) ==
    [i \in 1..Len(ids) |-> IF width = 0 THEN <<>> ELSE <<key, ids[i]>>]
PredictionWriteArgs ==
    [model_file_name : ModelFileNames,
     isotonic_model_file_name : IsotonicModelFileNames,
     num_scalar_targets : 0..1,
     example_id_strings : {<<"a">>, <<"a", "b">>},
     heights_m_agl : {<<10>>}]

\* prediction_io.write_file: the two global attributes (None is written as
\* the empty string) and the variables; the scalar variables are written
\* only when there is a scalar target.
IsotonicAttr(isotonic_model_file_name) ==
    IF isotonic_model_file_name.none THEN "" ELSE isotonic_model_file_name.str
prediction_io_write_file(args) ==
    LET ids == args.example_id_strings
        common ==
            (EXAMPLE_IDS_KEY :> ids)
            @@ (HEIGHTS_KEY :> args.heights_m_agl)
            @@ (VECTOR_TARGETS_KEY :> MatrixRows(VECTOR_TARGETS_KEY, ids, 1))
            @@ (VECTOR_PREDICTIONS_KEY :>
                    MatrixRows(VECTOR_PREDICTIONS_KEY, ids, 1))
        scalar ==
            (SCALAR_TARGETS_KEY :> MatrixRows(SCALAR_TARGETS_KEY, ids, 1))
            @@ (SCALAR_PREDICTIONS_KEY :>
                    MatrixRows(SCALAR_PREDICTIONS_KEY, ids, 1))
    IN  [attrs |->
             (MODEL_FILE_KEY :> args.model_file_name)
             @@ (ISOTONIC_MODEL_FILE_KEY :>
                     IsotonicAttr(args.isotonic_model_file_name)),
         variables |->
             IF args.num_scalar_targets > 0 THEN common @@ scalar ELSE common]

\* prediction_io.read_file: the dictionary is first built with four keys; the
\* isotonic attribute is read only if its key is already in that dictionary,
\* otherwise the entry is the empty string; the empty string becomes None.
\* (Without a heights variable the heights come from the model's metafile,
\* which prediction_io.write_file never makes necessary.)
ReadIsotonicName(dataset_object, prediction_dict) ==
    LET raw == IF HasKey(prediction_dict, ISOTONIC_MODEL_FILE_KEY)
               THEN dataset_object.attrs[ISOTONIC_MODEL_FILE_KEY]
               ELSE ""
    IN  IF raw = "" THEN PyNone ELSE PyStr(raw)
prediction_io_read_file(dataset_object) ==
    LET vars_ == dataset_object.variables
        d1 == (VECTOR_TARGETS_KEY :> vars_[VECTOR_TARGETS_KEY])
              @@ (VECTOR_PREDICTIONS_KEY :> vars_[VECTOR_PREDICTIONS_KEY])
              @@ (EXAMPLE_IDS_KEY :> vars_[EXAMPLE_IDS_KEY])
              @@ (MODEL_FILE_KEY :> dataset_object.attrs[MODEL_FILE_KEY])
        d2 == SetItem(d1, ISOTONIC_MODEL_FILE_KEY,
                      ReadIsotonicName(dataset_object, d1))
        d3 == SetItem(d2, HEIGHTS_KEY, vars_[HEIGHTS_KEY])
        num_examples == Len(d3[VECTOR_TARGETS_KEY])
    IN  IF HasKey(vars_, SCALAR_TARGETS_KEY)
        THEN SetItem(SetItem(d3, SCALAR_TARGETS_KEY,
                             vars_[SCALAR_TARGETS_KEY]),
                     SCALAR_PREDICTIONS_KEY, vars_[SCALAR_PREDICTIONS_KEY])
        ELSE SetItem(SetItem(d3, SCALAR_TARGETS_KEY,
                             [i \in 1..num_examples |-> <<>>]),
                     SCALAR_PREDICTIONS_KEY,
                     [i \in 1..num_examples |-> <<>>])

\* A caller writes a prediction file ...
WritePredictionFile ==
    /\ io.op = "predictions"
    /\ io.stage = "args"
    /\ io' = [op |-> "predictions", stage |-> "written", args |-> io.args,
              file |-> prediction_io_write_file(io.args)]
    /\ UNCHANGED <<gen_vars, layout>>

\* ... and the same file is read back.
ReadPredictionFile ==
    /\ io.op = "predictions"
    /\ io.stage = "written"
    /\ io' = [op |-> "predictions", stage |-> "read", args |-> io.args,
              file |-> io.file,
              prediction_dict |-> prediction_io_read_file(io.file)]
    /\ UNCHANGED <<gen_vars, layout>>

\* The format specification {:04d}: at least four characters, padded with
\* zeros after the sign.
RECURSIVE ZeroPad(_, _)
ZeroPad(digits, width) ==
    IF Len(digits) >= width THEN digits ELSE ZeroPad("0" \o digits, width)
Format04d(n) ==
    IF n < 0 THEN "-" \o ZeroPad(ToString(-n), 3) ELSE ZeroPad(ToString(n), 4)

\* example_io.find_file and rrtm_io.find_file: the expected path, and an
\* error if it is not a file and raise_error_if_missing is set.  `files` is
\* the set of paths for which os.path.isfile is true.
ExampleFileName(example_dir_name, year) ==
    example_dir_name \o "/radiative_transfer_examples_" \o Format04d(year)
        \o ".nc"
RrtmFileName(directory_name, year) ==
    directory_name \o "/rrtm_output_" \o Format04d(year) \o ".nc"
RaisesWheneverMissing(raise_error_if_missing, is_file) == ~is_file
RaisesIfMissing(raise_error_if_missing, is_file) ==
    raise_error_if_missing /\ ~is_file
example_io_find_file(example_dir_name, year, raise_error_if_missing, files) ==
    LET example_file_name == ExampleFileName(example_dir_name, year)
    IN  IF RaisesIfMissing(raise_error_if_missing,
                           example_file_name \in files)
        THEN [error |-> "ValueError"]
        ELSE [error |-> "none", file_name |-> example_file_name]
rrtm_io_find_file(directory_name, year, raise_error_if_missing, files) ==
    LET rrtm_file_name == RrtmFileName(directory_name, year)
    IN  IF RaisesIfMissing(raise_error_if_missing, rrtm_file_name \in files)
        THEN [error |-> "ValueError"]
        ELSE [error |-> "none", file_name |-> rrtm_file_name]

\* Arguments of a find_file call and the files on disk: any of the two
\* expected files of the year asked for and the example file of year 2021.
DirectoryNames == {"examples", "rrtm"}
Years == {5, 99, 1999, 2020}
FindFileArgs ==
    UNION {[module : {"example_io", "rrtm_io"},
            directory_name : {d},
            year : {y},
            raise_error_if_missing : BOOLEAN,
            files : SUBSET {ExampleFileName(d, y), RrtmFileName(d, y),
                            ExampleFileName(d, 2021)}]
           : <<d, y>> \in DirectoryNames \X Years}

ExampleIoFindFile ==
    /\ io.op = "find_file"
    /\ io.stage = "args"
    /\ io.args.module = "example_io"
    /\ io' = [op |-> "find_file", stage |-> "returned", args |-> io.args,
              result |-> example_io_find_file(
                             io.args.directory_name, io.args.year,
                             io.args.raise_error_if_missing, io.args.files)]
    /\ UNCHANGED <<gen_vars, layout>>

RrtmIoFindFile ==
    /\ io.op = "find_file"
    /\ io.stage = "args"
    /\ io.args.module = "rrtm_io"
    /\ io' = [op |-> "find_file", stage |-> "returned", args |-> io.args,
              result |-> rrtm_io_find_file(
                             io.args.directory_name, io.args.year,
                             io.args.raise_error_if_missing, io.args.files)]
    /\ UNCHANGED <<gen_vars, layout>>

\* rrtm_io.find_many_files.  time_conversion.unix_sec_to_string(t, '%Y') is
\* the year of a time in UTC; YearStarts holds the first second of 1970,
\* 1971, 1972 and 1973.
YearStarts == <<0, 31536000, 63072000, 94694400>>
UnixSecToYear(t) ==
    1969 + Cardinality({k \in 1..Len(YearStarts) : YearStarts[k] <= t})
\* `if test_mode or os.path.isfile(this_file_name)`
KeepsEveryFile(test_mode, is_file) == TRUE
KeepsFile(test_mode, is_file) == test_mode \/ is_file
\* The loop over the years from this_year to end_year.
RECURSIVE FindFilesFrom(_, _, _, _, _, _, _)
FindFilesFrom(this_year, end_year, directory_name, raise_error_if_any_missing, test_mode, files, rrtm_file_names) ==
    IF this_year > end_year
    THEN [error |-> "none", rrtm_file_names |-> rrtm_file_names]
    ELSE LET found == rrtm_io_find_file(directory_name, this_year,
                                        raise_error_if_any_missing, files)
         IN  IF found.error # "none" THEN [error |-> found.error]
             ELSE FindFilesFrom(
                      this_year + 1, end_year, directory_name,
                      raise_error_if_any_missing, test_mode, files,
                      IF KeepsFile(test_mode, found.file_name \in files)
                      THEN Append(rrtm_file_names, found.file_name)
                      ELSE rrtm_file_names)
\* numpy.linspace raises ValueError for a negative number of years.
rrtm_io_find_many_files(args) ==
    LET start_year == UnixSecToYear(args.first_time_unix_sec)
        end_year == UnixSecToYear(args.last_time_unix_sec)
        found == FindFilesFrom(start_year, end_year, args.directory_name,
                               args.raise_error_if_any_missing,
                               args.test_mode, args.files, <<>>)
    IN  IF end_year - start_year + 1 < 0 THEN [error |-> "ValueError"]
        ELSE IF found.error # "none" THEN found
        ELSE IF /\ args.raise_error_if_all_missing
                /\ Len(found.rrtm_file_names) = 0
             THEN [error |-> "ValueError"]
             ELSE found

\* Arguments of a find_many_files call and the files on disk: time windows
\* with ends in 1970, 1971 and 1972 (also ends in the wrong order), any of
\* the files of 1970 to 1973.
FindManyTimes == {0, 31535999, 31536000, 94694399}
FindManyFilesArgs ==
    [directory_name : {"rrtm"},
     first_time_unix_sec : FindManyTimes,
     last_time_unix_sec : FindManyTimes,
     raise_error_if_any_missing : BOOLEAN,
     raise_error_if_all_missing : BOOLEAN,
     test_mode : BOOLEAN,
     files : SUBSET {RrtmFileName("rrtm", y) : y \in 1970..1973}]

RrtmIoFindManyFiles ==
    /\ io.op = "find_many_files"
    /\ io.stage = "args"
    /\ io' = [op |-> "find_many_files", stage |-> "returned",
              args |-> io.args, result |-> rrtm_io_find_many_files(io.args)]
    /\ UNCHANGED <<gen_vars, layout>>

\* rrtm_io.read_file.  Numbers are in units of 1e27, rounded down, so that
\* every ordinary physical value is 0 and the threshold 1e30 is 1000.  The
\* fields carry the names of the file's variables.
MIN_BAD_VALUE == 1000
KM_TO_METRES == 1000
DEG_TO_RADIANS == [num |-> 1745, den |-> 100000]
DEFAULT_SCALAR_PREDICTOR_NAMES == <<"sza", "albedo", "lat", "lon", "lwp", "iwp">>
DEFAULT_VECTOR_PREDICTOR_NAMES == <<"p", "t", "q", "lwc", "iwc">>
DEFAULT_SCALAR_TARGET_NAMES == <<"sfcflux", "toaflux">>
DEFAULT_VECTOR_TARGET_NAMES == <<"fluxd", "fluxu", "hr">>
PREDICTOR_NAME_TO_CONV_FACTOR(name) ==
    CASE name = "sza" -> DEG_TO_RADIANS
      [] name \in {"lat", "lon", "albedo", "t"} -> [num |-> 1, den |-> 1]
      [] name \in {"lwp", "iwp", "q", "lwc", "iwc"} -> [num |-> 1, den |-> 1000]
      [] name = "p" -> [num |-> 100, den |-> 1]
TimesFactor(factor, value) == (factor.num * value) \div factor.den

\* example_utils.get_grid_cell_edges and get_grid_cell_widths: the edges lie
\* halfway between the cell centres, the outer edges as far from the outer
\* centres as their inner edges; a width is the distance between two edges.
get_grid_cell_edges(heights_m_agl) ==
    LET n == Len(heights_m_agl)
        mid(j) == (heights_m_agl[j] + heights_m_agl[j + 1]) \div 2
    IN  [j \in 1..(n + 1) |->
            IF j = 1 THEN heights_m_agl[1] - (mid(1) - heights_m_agl[1])
            ELSE IF j = n + 1
                 THEN heights_m_agl[n] + (heights_m_agl[n] - mid(n - 1))
                 ELSE mid(j - 1)]
get_grid_cell_widths(edge_heights_m_agl) ==
    [j \in 1..(Len(edge_heights_m_agl) - 1) |->
        edge_heights_m_agl[j + 1] - edge_heights_m_agl[j]]
_layerwise_water_path_to_content(layerwise_path_kg_m02, heights_m_agl) ==
    LET grid_cell_widths_metres ==
            get_grid_cell_widths(get_grid_cell_edges(heights_m_agl))
    IN  [j \in 1..Len(heights_m_agl) |->
            layerwise_path_kg_m02[j] \div grid_cell_widths_metres[j]]

\* An RRTM file: heights in km, and for every example a time, a
\* standard-atmosphere flag and a value of every variable (a profile over
\* the heights for a vector variable).  An example has ordinary values
\* except for at most one value of 1e30 or 1e33 (or 1e28 for the pressure).
RrtmHeightsKm == <<1, 3>>
RrtmScalarVariables == {"sza", "albedo", "lat", "lon", "lwp", "iwp",
                        "sfcflux", "toaflux"}
RrtmVectorVariables == {"p", "t", "q", "lwc", "iwc", "fluxd", "fluxu", "hr"}
LargeValues(name) ==
    {MIN_BAD_VALUE, 1000 * MIN_BAD_VALUE}
        \cup (IF name = "p" THEN {MIN_BAD_VALUE \div 100} ELSE {})
OrdinaryValues ==
    [name \in RrtmScalarVariables \cup RrtmVectorVariables |->
        IF name \in RrtmScalarVariables
        THEN 0 ELSE [j \in 1..Len(RrtmHeightsKm) |-> 0]]
RrtmValues ==
    {OrdinaryValues}
    \cup {[OrdinaryValues EXCEPT ![name] = v] :
             <<name, v>> \in
                 UNION {{name} \X LargeValues(name) :
                           name \in RrtmScalarVariables}}
    \cup {[OrdinaryValues EXCEPT ![t[1]][t[2]] = t[3]] :
             t \in UNION {{name} \X (1..Len(RrtmHeightsKm)) \X LargeValues(name)
                          : name \in RrtmVectorVariables}}
RrtmFiles ==
    UNION {{[height |-> RrtmHeightsKm,
             time |-> [i \in 1..n |-> 100 * i],
             stdatmos |-> [i \in 1..n |-> i],
             values |-> values] : values \in [1..n -> RrtmValues]}
           : n \in 1..2}

\* example_utils.create_example_ids: an ID encodes the valid time, latitude,
\* longitude, zenith angle and standard-atmosphere flag of its example.
ScalarPredictor(example_dict, i, name) ==
    LET k == CHOOSE k \in 1..Len(example_dict.scalar_predictor_names) :
                 example_dict.scalar_predictor_names[k] = name
    IN  example_dict.scalar_predictor_matrix[i][k]
example_utils_create_example_ids(example_dict) ==
    [i \in 1..Len(example_dict.valid_times) |->
        <<example_dict.valid_times[i],
          ScalarPredictor(example_dict, i, "lat"),
          ScalarPredictor(example_dict, i, "lon"),
          ScalarPredictor(example_dict, i, "sza"),
          example_dict.standard_atmo_flags[i]>>]

\* example_utils.subset_by_index: keeps the rows with the desired indices
\* (0-based), in the order of the indices, in every per-example field.
TakeIndices(array, desired_indices) ==
    [j \in 1..Len(desired_indices) |-> array[desired_indices[j] + 1]]
example_utils_subset_by_index(example_dict, desired_indices) ==
    [example_dict EXCEPT
        !.scalar_predictor_matrix = TakeIndices(@, desired_indices),
        !.vector_predictor_matrix = TakeIndices(@, desired_indices),
        !.scalar_target_matrix = TakeIndices(@, desired_indices),
        !.vector_target_matrix = TakeIndices(@, desired_indices),
        !.valid_times = TakeIndices(@, desired_indices),
        !.standard_atmo_flags = TakeIndices(@, desired_indices),
        !.example_id_strings = TakeIndices(@, desired_indices)]

\* The first part of read_file: the dictionary with the converted values of
\* the file's variables, and the example IDs.
ConvertedProfile(name, profile, heights_m_agl) ==
    LET scaled == [j \in 1..Len(profile) |->
                      TimesFactor(PREDICTOR_NAME_TO_CONV_FACTOR(name),
                                  profile[j])]
    IN  IF name \in {"lwc", "iwc"}
        THEN _layerwise_water_path_to_content(scaled, heights_m_agl)
        ELSE scaled
ReadVariables(dataset_object) ==
    LET num_examples == Len(dataset_object.time)
        heights_m_agl == [j \in 1..Len(dataset_object.height) |->
                             KM_TO_METRES * dataset_object.height[j]]
        values == dataset_object.values
        example_dict ==
            [scalar_predictor_names |-> DEFAULT_SCALAR_PREDICTOR_NAMES,
             vector_predictor_names |-> DEFAULT_VECTOR_PREDICTOR_NAMES,
             scalar_target_names |-> DEFAULT_SCALAR_TARGET_NAMES,
             vector_target_names |-> DEFAULT_VECTOR_TARGET_NAMES,
             valid_times |-> dataset_object.time,
             heights_m_agl |-> heights_m_agl,
             standard_atmo_flags |-> dataset_object.stdatmos,
             scalar_predictor_matrix |->
                 [i \in 1..num_examples |->
                     [k \in 1..Len(DEFAULT_SCALAR_PREDICTOR_NAMES) |->
                         LET name == DEFAULT_SCALAR_PREDICTOR_NAMES[k]
                         IN  TimesFactor(PREDICTOR_NAME_TO_CONV_FACTOR(name),
                                         values[i][name])]],
             vector_predictor_matrix |->
                 [i \in 1..num_examples |->
                     [j \in 1..Len(heights_m_agl) |->
                         [k \in 1..Len(DEFAULT_VECTOR_PREDICTOR_NAMES) |->
                             LET name == DEFAULT_VECTOR_PREDICTOR_NAMES[k]
                             IN  ConvertedProfile(name, values[i][name],
                                                  heights_m_agl)[j]]]],
             scalar_target_matrix |->
                 [i \in 1..num_examples |->
                     [k \in 1..Len(DEFAULT_SCALAR_TARGET_NAMES) |->
                         values[i][DEFAULT_SCALAR_TARGET_NAMES[k]]]],
             vector_target_matrix |->
                 [i \in 1..num_examples |->
                     [j \in 1..Len(heights_m_agl) |->
                         [k \in 1..Len(DEFAULT_VECTOR_TARGET_NAMES) |->
                             values[i][DEFAULT_VECTOR_TARGET_NAMES[k]][j]]]],
             example_id_strings |-> <<>>]
    IN  [example_dict EXCEPT
            !.example_id_strings =
                example_utils_create_example_ids(example_dict)]

\* The block under `if allow_bad_values`: numpy.any(matrix >= MIN_BAD_VALUE)
\* over the rows of the four matrices just filled, numpy.where of the rows
\* without a flag, and the subsetting to these rows.
AnyInRow(row) == \E k \in 1..Len(row) : row[k] >= MIN_BAD_VALUE
AnyInProfiles(profiles) == \E j \in 1..Len(profiles) : AnyInRow(profiles[j])
BadPredictorFlag(example_dict, i) ==
    \/ AnyInRow(example_dict.scalar_predictor_matrix[i])
    \/ AnyInProfiles(example_dict.vector_predictor_matrix[i])
BadTargetFlag(example_dict, i) ==
    \/ AnyInRow(example_dict.scalar_target_matrix[i])
    \/ AnyInProfiles(example_dict.vector_target_matrix[i])
RECURSIVE Where(_, _)
Where(flags, first) ==
    IF first > Len(flags) THEN <<>>
    ELSE (IF flags[first] THEN <<first - 1>> ELSE <<>>)
             \o Where(flags, first + 1)
GoodIndices(example_dict) ==
    Where([i \in 1..Len(example_dict.valid_times) |->
              ~(BadPredictorFlag(example_dict, i)
                    \/ BadTargetFlag(example_dict, i))], 1)
RemoveBadExamples(example_dict, allow_bad_values) ==
    IF allow_bad_values
    THEN example_utils_subset_by_index(example_dict, GoodIndices(example_dict))
    ELSE example_dict

\* longitude_conv.convert_lng_positive_in_west(allow_nan=False) is a library
\* routine: it raises an error for a longitude outside -180...360 degrees
\* (here: one that is not 0) and leaves a longitude of 0...360 as it is.
LongitudesAreValid(example_dict) ==
    \A i \in 1..Len(example_dict.valid_times) :
        ScalarPredictor(example_dict, i, "lon") < 1

\* The last part of read_file adds the water-path profiles (downward, then
\* upward), the relative humidity and the flux increments as new columns;
\* only their names are kept here.  Water vapour path and relative humidity
\* come from library routines for moist thermodynamics, which may or may not
\* reject a pressure, temperature or humidity of 1e27 and more.
DerivedVectorPredictorNames ==
    <<"LIQUID_WATER_PATH", "ICE_WATER_PATH", "WATER_VAPOUR_PATH",
      "UPWARD_LIQUID_WATER_PATH", "UPWARD_ICE_WATER_PATH",
      "UPWARD_WATER_VAPOUR_PATH", "RELATIVE_HUMIDITY">>
LibraryMayRaise(example_dict) ==
    \E i \in 1..Len(example_dict.valid_times) :
        \E j \in 1..Len(example_dict.heights_m_agl) :
            \E k \in 1..3 : example_dict.vector_predictor_matrix[i][j][k] > 0
AddDerivedFields(example_dict) ==
    [example_dict EXCEPT
        !.vector_predictor_names = @ \o DerivedVectorPredictorNames]

\* read_file: the set of its possible outcomes.
rrtm_io_read_file(dataset_object, allow_bad_values) ==
    LET example_dict ==
            RemoveBadExamples(ReadVariables(dataset_object), allow_bad_values)
    IN  IF ~LongitudesAreValid(example_dict)
        THEN {[error |-> "ValueError"]}
        ELSE {[error |-> "none",
               example_dict |-> AddDerivedFields(example_dict)]}
             \cup (IF LibraryMayRaise(example_dict)
                   THEN {[error |-> "ValueError"]} ELSE {})

RrtmReadFile ==
    /\ io.op = "rrtm_read_file"
    /\ io.stage = "args"
    /\ \E result \in rrtm_io_read_file(io.args.file, io.args.allow_bad_values) :
          io' = [op |-> "rrtm_read_file", stage |-> "returned",
                 args |-> io.args, result |-> result]
    /\ UNCHANGED <<gen_vars, layout>>

IoInputs ==
    [op : {"predictions"}, stage : {"args"}, args : PredictionWriteArgs]
    \cup [op : {"find_file"}, stage : {"args"}, args : FindFileArgs]
    \cup [op : {"find_many_files"}, stage : {"args"},
          args : FindManyFilesArgs]
    \cup [op : {"rrtm_read_file"}, stage : {"args"},
          args : [file : RrtmFiles, allow_bad_values : BOOLEAN]]

IoInit ==
    /\ IdleGenerator
    /\ layout = "None"
    /\ io \in IoInputs

IoNext ==
    \/ WritePredictionFile
    \/ ReadPredictionFile
    \/ ExampleIoFindFile
    \/ RrtmIoFindFile
    \/ RrtmIoFindManyFiles
    \/ RrtmReadFile

IoSpec == IoInit /\ [][IoNext]_vars

\* ---------------------------------------------------------------------------
\* Prediction dictionaries in memory (prediction_io): the subset functions and
\* concat_predictions
\* ---------------------------------------------------------------------------
\* Heights are in units of 1e-6 m, zenith angles in units of 0.001 radians,
\* times in seconds since 1970-01-01 00:00.
TOLERANCE == 1
MAX_ZENITH_ANGLE_RADIANS == 1571
PerExampleKeysWithoutIds ==
    <<SCALAR_TARGETS_KEY, SCALAR_PREDICTIONS_KEY, VECTOR_TARGETS_KEY,
      VECTOR_PREDICTIONS_KEY>>
ONE_PER_EXAMPLE_KEYS ==
    <<SCALAR_TARGETS_KEY, SCALAR_PREDICTIONS_KEY, VECTOR_TARGETS_KEY,
      VECTOR_PREDICTIONS_KEY, EXAMPLE_IDS_KEY>>
Abs(x) == IF x < 0 THEN -x ELSE x
ElementsOf(list) == {list[k] : k \in 1..Len(list)}

\* numpy.allclose(a, b, atol=atol) with the default rtol of 1e-5:
\* |a - b| <= atol + rtol * |b| for all elements.
allclose(a, b, atol) ==
    /\ Len(a) = Len(b)
    /\ \A j \in 1..Len(a) :
          100000 * Abs(a[j] - b[j]) <= 100000 * atol + Abs(b[j])

\* example_utils.parse_example_ids: an example ID is decoded into the valid
\* time, latitude, longitude, zenith angle and standard-atmosphere flag it
\* encodes; here an ID is the tuple of the five.
ExampleId(time, zenith, flag) == <<time, 40, 255, zenith, flag>>
parse_example_ids(id_strings) ==
    [valid_times_unix_sec |->
         [i \in 1..Len(id_strings) |-> id_strings[i][1]],
     zenith_angles_rad |->
         [i \in 1..Len(id_strings) |-> id_strings[i][4]],
     standard_atmo_flags |->
         [i \in 1..Len(id_strings) |-> id_strings[i][5]]]

\* time_conversion.unix_sec_to_string(t, '%m') as an integer, for a time in
\* 1970: the month of day t / 86400 of a year that is not a leap year.
DaysBeforeMonth == <<0, 31, 59, 90, 120, 151, 181, 212, 243, 273, 304, 334>>
UnixSecToMonth(t) ==
    LET day == t \div 86400
    IN  CHOOSE m \in 1..12 :
            /\ DaysBeforeMonth[m] <= day
            /\ (m = 12 \/ day < DaysBeforeMonth[m + 1])

\* The loop over ONE_PER_EXAMPLE_KEYS at the end of every subset function:
\* the per-example entries are replaced by their rows good_indices (0-based).
SubsetExamples(prediction_dict, good_indices) ==
    [key \in DOMAIN prediction_dict |->
        IF key \in ElementsOf(ONE_PER_EXAMPLE_KEYS)
        THEN TakeIndices(prediction_dict[key], good_indices)
        ELSE prediction_dict[key]]

\* The four subset functions.  Each changes the dictionary it is given and
\* returns it; the result here is the dictionary afterwards, or an error
\* raised by the checks of the arguments before anything is changed.
subset_by_standard_atmo(prediction_dict, standard_atmo_enum) ==
    LET all_standard_atmo_enums ==
            parse_example_ids(prediction_dict[EXAMPLE_IDS_KEY])
                .standard_atmo_flags
        good_indices ==
            Where([i \in 1..Len(all_standard_atmo_enums) |->
                      all_standard_atmo_enums[i] = standard_atmo_enum], 1)
    IN  [error |-> "none",
         prediction_dict |-> SubsetExamples(prediction_dict, good_indices)]
subset_by_zenith_angle(prediction_dict, min_zenith_angle_rad, max_zenith_angle_rad, max_inclusive_arg) ==
    IF \/ min_zenith_angle_rad < 0
       \/ max_zenith_angle_rad > MAX_ZENITH_ANGLE_RADIANS
       \/ max_zenith_angle_rad <= min_zenith_angle_rad
    THEN [error |-> "ValueError"]
    ELSE LET max_inclusive ==
                 IF max_inclusive_arg = "None"
                 THEN max_zenith_angle_rad = MAX_ZENITH_ANGLE_RADIANS
                 ELSE max_inclusive_arg = "True"
             all_zenith_angles_rad ==
                 parse_example_ids(prediction_dict[EXAMPLE_IDS_KEY])
                     .zenith_angles_rad
             good_indices ==
                 Where([i \in 1..Len(all_zenith_angles_rad) |->
                           /\ all_zenith_angles_rad[i] >= min_zenith_angle_rad
                           /\ IF max_inclusive
                              THEN all_zenith_angles_rad[i]
                                       <= max_zenith_angle_rad
                              ELSE all_zenith_angles_rad[i]
                                       < max_zenith_angle_rad], 1)
         IN  [error |-> "none",
              prediction_dict |->
                  SubsetExamples(prediction_dict, good_indices)]
subset_by_month(prediction_dict, desired_month) ==
    IF desired_month < 1 \/ desired_month > 12
    THEN [error |-> "ValueError"]
    ELSE LET all_times_unix_sec ==
                 parse_example_ids(prediction_dict[EXAMPLE_IDS_KEY])
                     .valid_times_unix_sec
             good_indices ==
                 Where([i \in 1..Len(all_times_unix_sec) |->
                           UnixSecToMonth(all_times_unix_sec[i])
                               = desired_month], 1)
         IN  [error |-> "none",
              prediction_dict |->
                  SubsetExamples(prediction_dict, good_indices)]
subset_by_index(prediction_dict, desired_indices) ==
    IF \E j \in 1..Len(desired_indices) :
           \/ desired_indices[j] < 0
           \/ desired_indices[j] >= Len(prediction_dict[EXAMPLE_IDS_KEY])
    THEN [error |-> "ValueError"]
    ELSE [error |-> "none",
          prediction_dict |-> SubsetExamples(prediction_dict, desired_indices)]

\* concat_predictions: a deep copy of the first dictionary, to which the
\* per-example entries of the others are appended one dictionary at a time,
\* after the comparison of the heights and of the two model file names with
\* those of the first.  The result holds the outcome and the input
\* dictionaries as they are after the call.
AppendExamples(prediction_dict, other_dict) ==
    [key \in DOMAIN prediction_dict |->
        IF key \in ElementsOf(ONE_PER_EXAMPLE_KEYS)
        THEN prediction_dict[key] \o other_dict[key]
        ELSE prediction_dict[key]]
DictionariesMatch(prediction_dict, other_dict) ==
    /\ allclose(prediction_dict[HEIGHTS_KEY], other_dict[HEIGHTS_KEY],
                TOLERANCE)
    /\ prediction_dict[MODEL_FILE_KEY] = other_dict[MODEL_FILE_KEY]
    /\ prediction_dict[ISOTONIC_MODEL_FILE_KEY]
           = other_dict[ISOTONIC_MODEL_FILE_KEY]
RECURSIVE ConcatPredictionsFrom(_, _, _)
ConcatPredictionsFrom(prediction_dict, prediction_dicts, i) ==
    IF i > Len(prediction_dicts)
    THEN [error |-> "none", prediction_dict |-> prediction_dict]
    ELSE IF ~DictionariesMatch(prediction_dict, prediction_dicts[i])
         THEN [error |-> "ValueError"]
         ELSE ConcatPredictionsFrom(
                  AppendExamples(prediction_dict, prediction_dicts[i]),
                  prediction_dicts, i + 1)
concat_predictions(prediction_dicts) ==
    [outcome |->
         ConcatPredictionsFrom(prediction_dicts[1], prediction_dicts, 2),
     prediction_dicts |-> prediction_dicts]

\* The dictionaries a program holds at first: up to three, as read from
\* prediction files of one, two and one examples.  The first comes from
\* model.h5 with heights of 10 m; the second may come from another model or
\* isotonic model and have heights that differ by 0, 1e-6, 5e-5 or 1e-3 m;
\* the third may come from another model.
RecordExamples ==
    <<<<ExampleId(0, 0, 1)>>,
      <<ExampleId(2678400, 785, 2), ExampleId(86400, 1571, 1)>>,
      <<ExampleId(5097600, 785, 2)>>>>
RecordHeights == {<<10000000 + d>> : d \in {0, 1, 50, 1000}}
RecordIsotonicNames == {PyNone, PyStr("isotonic.dill")}
MakePredictionDict(ids, model_file_name, isotonic_model_file_name, heights_m_agl) ==
    (EXAMPLE_IDS_KEY :> ids)
    @@ (SCALAR_TARGETS_KEY :> MatrixRows(SCALAR_TARGETS_KEY, ids, 1))
    @@ (SCALAR_PREDICTIONS_KEY :> MatrixRows(SCALAR_PREDICTIONS_KEY, ids, 1))
    @@ (VECTOR_TARGETS_KEY :> MatrixRows(VECTOR_TARGETS_KEY, ids, 1))
    @@ (VECTOR_PREDICTIONS_KEY :> MatrixRows(VECTOR_PREDICTIONS_KEY, ids, 1))
    @@ (HEIGHTS_KEY :> heights_m_agl)
    @@ (MODEL_FILE_KEY :> model_file_name)
    @@ (ISOTONIC_MODEL_FILE_KEY :> isotonic_model_file_name)
RecordChoices(i) ==
    IF i = 1 THEN {<<"model.h5", PyNone, <<10000000>>>>}
    ELSE IF i = 2
         THEN ModelFileNames \X RecordIsotonicNames \X RecordHeights
         ELSE ModelFileNames \X {PyNone} \X {<<10000000>>}
RecordLists(n) ==
    {[i \in 1..n |->
         MakePredictionDict(RecordExamples[i], choice[i][1], choice[i][2],
                            choice[i][3])] :
     choice \in {c \in [1..n -> ModelFileNames \X RecordIsotonicNames
                                   \X RecordHeights] :
                    \A i \in 1..n : c[i] \in RecordChoices(i)}}

\* Arguments of the subset functions.
StandardAtmoEnums == {1, 2}
ZenithAngleRanges ==
    {<<0, 785, "None">>, <<785, MAX_ZENITH_ANGLE_RADIANS, "None">>,
     <<785, MAX_ZENITH_ANGLE_RADIANS, "False">>, <<0, 785, "True">>,
     <<785, 785, "None">>}
DesiredMonths == {1, 2, 13}
DesiredIndices(num_examples) ==
    {<<>>, <<0>>, <<num_examples - 1, 0>>, <<num_examples>>}

\* One call of a subset function on one of the dictionaries held.
SubsetCall(name, k, result) ==
    io' = [op |-> "records", stage |-> name, error |-> result.error,
           prediction_dicts |->
               IF result.error = "none"
               THEN [io.prediction_dicts EXCEPT ![k] = result.prediction_dict]
               ELSE io.prediction_dicts]

SubsetByStandardAtmo ==
    /\ io.op = "records"
    /\ \E k \in 1..Len(io.prediction_dicts), enum \in StandardAtmoEnums :
          SubsetCall("subset_by_standard_atmo", k,
                     subset_by_standard_atmo(io.prediction_dicts[k], enum))
    /\ UNCHANGED <<gen_vars, layout>>

SubsetByZenithAngle ==
    /\ io.op = "records"
    /\ \E k \in 1..Len(io.prediction_dicts), range \in ZenithAngleRanges :
          SubsetCall("subset_by_zenith_angle", k,
                     subset_by_zenith_angle(io.prediction_dicts[k], range[1],
                                            range[2], range[3]))
    /\ UNCHANGED <<gen_vars, layout>>

SubsetByMonth ==
    /\ io.op = "records"
    /\ \E k \in 1..Len(io.prediction_dicts), month \in DesiredMonths :
          SubsetCall("subset_by_month", k,
                     subset_by_month(io.prediction_dicts[k], month))
    /\ UNCHANGED <<gen_vars, layout>>

SubsetByIndex ==
    /\ io.op = "records"
    /\ \E k \in 1..Len(io.prediction_dicts) :
          \E indices \in DesiredIndices(
                             Len(io.prediction_dicts[k][EXAMPLE_IDS_KEY])) :
              SubsetCall("subset_by_index", k,
                         subset_by_index(io.prediction_dicts[k], indices))
    /\ UNCHANGED <<gen_vars, layout>>

\* concat_predictions on all the dictionaries held; the program goes on with
\* the dictionary returned.
ConcatPredictions ==
    /\ io.op = "records"
    /\ LET result == concat_predictions(io.prediction_dicts)
       IN  io' = [op |-> "records", stage |-> "concat_predictions",
                  before |-> io.prediction_dicts,
                  after |-> result.prediction_dicts,
                  error |-> result.outcome.error,
                  prediction_dicts |->
                      IF result.outcome.error = "none"
                      THEN <<result.outcome.prediction_dict>>
                      ELSE result.prediction_dicts]
    /\ UNCHANGED <<gen_vars, layout>>

RecordsInit ==
    /\ IdleGenerator
    /\ layout = "None"
    /\ \E n \in 1..3 :
          \E prediction_dicts \in RecordLists(n) :
              io = [op |-> "records", stage |-> "read",
                    prediction_dicts |-> prediction_dicts]

RecordsNext ==
    \/ SubsetByStandardAtmo
    \/ SubsetByZenithAngle
    \/ SubsetByMonth
    \/ SubsetByIndex
    \/ ConcatPredictions

RecordsSpec == RecordsInit /\ [][RecordsNext]_vars

\* ---------------------------------------------------------------------------
\* train_neural_net: the options of the training and validation generators
\* ---------------------------------------------------------------------------
\* An option dictionary is a function from keys to values.  Batch sizes and
\* times are integers, the other values are named by strings.
EXAMPLE_DIRECTORY_KEY == "example_dir_name"
BATCH_SIZE_KEY == "num_examples_per_batch"
SCALAR_PREDICTOR_NAMES_KEY == "scalar_predictor_names"
VECTOR_PREDICTOR_NAMES_KEY == "vector_predictor_names"
SCALAR_TARGET_NAMES_KEY == "scalar_target_names"
VECTOR_TARGET_NAMES_KEY == "vector_target_names"
FIRST_TIME_KEY == "first_time_unix_sec"
LAST_TIME_KEY == "last_time_unix_sec"
NORMALIZATION_FILE_KEY == "normalization_file_name"
PREDICTOR_NORM_TYPE_KEY == "predictor_norm_type_string"
PREDICTOR_MIN_NORM_VALUE_KEY == "predictor_min_norm_value"
PREDICTOR_MAX_NORM_VALUE_KEY == "predictor_max_norm_value"
TARGET_NORM_TYPE_KEY == "target_norm_type_string"
TARGET_MIN_NORM_VALUE_KEY == "target_min_norm_value"
TARGET_MAX_NORM_VALUE_KEY == "target_max_norm_value"

DEFAULT_GENERATOR_OPTION_DICT ==
    (SCALAR_PREDICTOR_NAMES_KEY :> "example_io.SCALAR_PREDICTOR_NAMES")
    @@ (VECTOR_PREDICTOR_NAMES_KEY :> "example_io.VECTOR_PREDICTOR_NAMES")
    @@ (SCALAR_TARGET_NAMES_KEY :> "example_io.SCALAR_TARGET_NAMES")
    @@ (VECTOR_TARGET_NAMES_KEY :> "example_io.VECTOR_TARGET_NAMES")
    @@ (HEIGHTS_KEY :> "example_io.DEFAULT_HEIGHTS_M_AGL")
    @@ (PREDICTOR_NORM_TYPE_KEY :> "z_score")
    @@ (PREDICTOR_MIN_NORM_VALUE_KEY :> "None")
    @@ (PREDICTOR_MAX_NORM_VALUE_KEY :> "None")
    @@ (TARGET_NORM_TYPE_KEY :> "minmax")
    @@ (TARGET_MIN_NORM_VALUE_KEY :> "0.")
    @@ (TARGET_MAX_NORM_VALUE_KEY :> "1.")

\* _check_generator_args: the defaults updated with the given options, or
\* the error of assert_is_geq(batch size, 32).  The given dictionary is
\* copied, never changed.
check_generator_args(given_option_dict) ==
    LET updated_option_dict == given_option_dict @@ DEFAULT_GENERATOR_OPTION_DICT
    IN  IF ArgsAccepted(updated_option_dict[BATCH_SIZE_KEY], FALSE)
        THEN [error |-> "none", option_dict |-> updated_option_dict]
        ELSE [error |-> "ValueError"]

\* The loop of train_neural_net over the keys of the training options: every
\* value but those of the keys to keep is written into the validation options.
ValidationKeysWithoutLastTime ==
    {EXAMPLE_DIRECTORY_KEY, BATCH_SIZE_KEY, FIRST_TIME_KEY}
validation_keys_to_keep ==
    {EXAMPLE_DIRECTORY_KEY, BATCH_SIZE_KEY, FIRST_TIME_KEY, LAST_TIME_KEY}
MergeIntoValidation(training_option_dict, validation_option_dict) ==
    [this_key \in DOMAIN validation_option_dict
                      \cup (DOMAIN training_option_dict
                                \ validation_keys_to_keep) |->
        IF /\ this_key \in DOMAIN training_option_dict
           /\ this_key \notin validation_keys_to_keep
        THEN training_option_dict[this_key]
        ELSE validation_option_dict[this_key]]

\* Options a caller gives: the keys without a default are always there, keys
\* with a default may be there; the validation options may hold values of
\* their own for keys that the merge overwrites.
RequiredOptions(directory, batch_size, first_time, last_time) ==
    (EXAMPLE_DIRECTORY_KEY :> directory) @@ (BATCH_SIZE_KEY :> batch_size)
    @@ (FIRST_TIME_KEY :> first_time) @@ (LAST_TIME_KEY :> last_time)
OptionalOptions(owner) ==
    {<<>>,
     (HEIGHTS_KEY :> owner \o "_heights"),
     (TARGET_NORM_TYPE_KEY :> owner \o "_norm_type"),
     (HEIGHTS_KEY :> owner \o "_heights")
         @@ (TARGET_NORM_TYPE_KEY :> owner \o "_norm_type")}
TrainingOptionDicts ==
    {RequiredOptions("training_dir", batch_size, 0, 100)
         @@ (NORMALIZATION_FILE_KEY :> "training_norm.nc") @@ optional :
     batch_size \in {MIN_BATCH_SIZE - 1, MIN_BATCH_SIZE},
     optional \in OptionalOptions("training")}
ValidationOptionDicts ==
    {RequiredOptions("validation_dir", batch_size, times[1], times[2])
         @@ norm_file @@ optional :
     batch_size \in {MIN_BATCH_SIZE - 1, 2 * MIN_BATCH_SIZE},
     times \in {<<0, 100>>, <<101, 200>>},
     norm_file \in {<<>>, (NORMALIZATION_FILE_KEY :> "validation_norm.nc")},
     optional \in OptionalOptions("validation")}

\* train_neural_net up to the construction of the generators, one step per
\* statement: the check of the training options, the merge, the check of
\* the validation options.
TrainInit ==
    /\ IdleGenerator
    /\ layout = "None"
    /\ \E training \in TrainingOptionDicts,
          validation \in ValidationOptionDicts :
          io = [op |-> "train", stage |-> "called", error |-> "none",
                given_training |-> training,
                given_validation |-> validation,
                training_option_dict |-> training,
                validation_option_dict |-> validation]

CheckTrainingOptions ==
    /\ io.op = "train"
    /\ io.stage = "called"
    /\ LET result == check_generator_args(io.training_option_dict)
       IN  io' = IF result.error = "none"
                 THEN [io EXCEPT !.stage = "training_checked",
                                 !.training_option_dict = result.option_dict]
                 ELSE [io EXCEPT !.stage = "raised", !.error = result.error]
    /\ UNCHANGED <<gen_vars, layout>>

MergeOptions ==
    /\ io.op = "train"
    /\ io.stage = "training_checked"
    /\ io' = [io EXCEPT
                 !.stage = "merged",
                 !.validation_option_dict =
                     MergeIntoValidation(io.training_option_dict, @)]
    /\ UNCHANGED <<gen_vars, layout>>

CheckValidationOptions ==
    /\ io.op = "train"
    /\ io.stage = "merged"
    /\ LET result == check_generator_args(io.validation_option_dict)
       IN  io' = IF result.error = "none"
                 THEN [io EXCEPT !.stage = "validation_checked",
                                 !.validation_option_dict = result.option_dict]
                 ELSE [io EXCEPT !.stage = "raised", !.error = result.error]
    /\ UNCHANGED <<gen_vars, layout>>

TrainNext ==
    \/ CheckTrainingOptions
    \/ MergeOptions
    \/ CheckValidationOptions

TrainOptionsSpec == TrainInit /\ [][TrainNext]_vars

\* ---------------------------------------------------------------------------
\* apply_cnn and apply_dense_net on many examples: the loop over batches
\* ---------------------------------------------------------------------------
\* A predictor matrix is the sequence of its rows; row k holds the number of
\* the example it belongs to.  model_object.predict returns one output row
\* per input row: for a dense net the row <<v>>, for a CNN a vector-output row
\* and a scalar-output row, the latter with two more columns in front when
\* the network was trained with the custom loss.
MaxApplyExamples == 201
ApplyNumExamples ==
    {1, MIN_INFERENCE_BATCH_SIZE - 1, MIN_INFERENCE_BATCH_SIZE,
     MIN_INFERENCE_BATCH_SIZE + 1, 2 * MIN_INFERENCE_BATCH_SIZE,
     MaxApplyExamples}
ApplyBatchSizes ==
    {-1, MIN_INFERENCE_BATCH_SIZE - 1, MIN_INFERENCE_BATCH_SIZE,
     MIN_INFERENCE_BATCH_SIZE + 1, 10 * MIN_INFERENCE_BATCH_SIZE}
PredictorRows(num_examples) == [k \in 1..num_examples |-> k - 1]
PredictVectorRow(v) == <<"vector", v>>
PredictScalarRow(v, used_custom_loss) ==
    IF used_custom_loss THEN <<-1, -2, v>> ELSE <<v>>
PredictDenseRow(v) == <<v>>

\* assert_is_geq(num_examples_per_batch, 100) unless it is None (-1 here).
InferenceArgsAccepted(num_examples_per_batch) ==
    num_examples_per_batch = -1
        \/ num_examples_per_batch >= MIN_INFERENCE_BATCH_SIZE
\* min([num_examples_per_batch, num_examples]) after None became num_examples
EffectiveBatchSize(num_examples_per_batch, num_examples) ==
    Min(IF num_examples_per_batch = -1 THEN num_examples
        ELSE num_examples_per_batch,
        num_examples)

\* this_last_index = min([i + num_examples_per_batch - 1, num_examples - 1])
ThisLastIndexOneFurther(i, num_examples_per_batch, num_examples) ==
    Min(i + num_examples_per_batch, num_examples - 1)
ThisLastIndex(i, num_examples_per_batch, num_examples) ==
    Min(i + num_examples_per_batch - 1, num_examples - 1)
\* numpy.linspace(first, last, num=last - first + 1, dtype=int)
Linspace(this_first_index, this_last_index) ==
    [j \in 1..(this_last_index - this_first_index + 1) |->
        this_first_index + j - 1]
\* scalar_prediction_matrix[:, 2:]
WithoutFirstTwoColumns(rows) ==
    [k \in 1..Len(rows) |-> SubSeq(rows[k], 3, Len(rows[k]))]

ApplyInit ==
    /\ IdleGenerator
    /\ layout = "None"
    /\ \E num_examples \in ApplyNumExamples,
          num_examples_per_batch \in ApplyBatchSizes,
          net \in {<<TRUE, TRUE>>, <<TRUE, FALSE>>, <<FALSE, FALSE>>} :
          io = [op |-> "apply", stage |-> "called", is_cnn |-> net[1],
                used_custom_loss |-> net[2],
                predictor_matrix |-> PredictorRows(num_examples),
                batch_size_given |-> num_examples_per_batch,
                num_examples_per_batch |-> num_examples_per_batch,
                i |-> 0, calls |-> <<>>, vector_prediction_matrix |-> <<>>,
                scalar_prediction_matrix |-> <<>>,
                prediction_matrix |-> <<>>]

\* _check_inference_args at the start of apply_cnn and apply_dense_net
CheckInferenceArgs ==
    /\ io.op = "apply"
    /\ io.stage = "called"
    /\ io' = IF InferenceArgsAccepted(io.num_examples_per_batch)
             THEN [io EXCEPT
                      !.stage = "loop",
                      !.num_examples_per_batch =
                          EffectiveBatchSize(@, Len(io.predictor_matrix))]
             ELSE [io EXCEPT !.stage = "raised"]
    /\ UNCHANGED <<gen_vars, layout>>

\* One pass of `for i in range(0, num_examples, num_examples_per_batch)`:
\* the model is applied to the rows these_indices and its outputs are
\* appended to the prediction matrices.
ApplyToBatch ==
    /\ io.op = "apply"
    /\ io.stage = "loop"
    /\ io.i < Len(io.predictor_matrix)
    /\ LET these_indices ==
               Linspace(io.i, ThisLastIndex(io.i, io.num_examples_per_batch,
                                            Len(io.predictor_matrix)))
           these_rows == TakeIndices(io.predictor_matrix, these_indices)
       IN  io' = [io EXCEPT
                     !.i = @ + io.num_examples_per_batch,
                     !.calls = Append(@, these_indices),
                     !.vector_prediction_matrix =
                         IF io.is_cnn
                         THEN @ \o [k \in 1..Len(these_rows) |->
                                       PredictVectorRow(these_rows[k])]
                         ELSE @,
                     !.scalar_prediction_matrix =
                         IF io.is_cnn
                         THEN @ \o [k \in 1..Len(these_rows) |->
                                       PredictScalarRow(these_rows[k],
                                                        io.used_custom_loss)]
                         ELSE @,
                     !.prediction_matrix =
                         IF io.is_cnn THEN @
                         ELSE @ \o [k \in 1..Len(these_rows) |->
                                       PredictDenseRow(these_rows[k])]]
    /\ UNCHANGED <<gen_vars, layout>>

\* After the loop: apply_cnn drops the first two scalar columns of a network
\* trained with the custom loss; the prediction matrices are returned.
ReturnPredictions ==
    /\ io.op = "apply"
    /\ io.stage = "loop"
    /\ io.i >= Len(io.predictor_matrix)
    /\ io' = [io EXCEPT
                 !.stage = "returned",
                 !.scalar_prediction_matrix =
                     IF io.is_cnn /\ io.used_custom_loss
                     THEN WithoutFirstTwoColumns(@) ELSE @]
    /\ UNCHANGED <<gen_vars, layout>>

ApplyNext ==
    \/ CheckInferenceArgs
    \/ ApplyToBatch
    \/ ReturnPredictions

ApplySpec == ApplyInit /\ [][ApplyNext]_vars

\* ---------------------------------------------------------------------------
\* rrtm_io._get_water_path_profiles
\* ---------------------------------------------------------------------------
\* The vector predictors of an example dictionary: vector_predictor_matrix
\* [i][j][k] is the value of example i at height j of the k-th name.  Level 1
\* is the lowest.  air_density stands for the result of _get_air_density,
\* which library routines for moist thermodynamics compute from pressure,
\* temperature and humidity.
LIQUID_WATER_PATH_NAME == "LIQUID_WATER_PATH"
ICE_WATER_PATH_NAME == "ICE_WATER_PATH"
WATER_VAPOUR_PATH_NAME == "WATER_VAPOUR_PATH"
UPWARD_LIQUID_WATER_PATH_NAME == "UPWARD_LIQUID_WATER_PATH"
UPWARD_ICE_WATER_PATH_NAME == "UPWARD_ICE_WATER_PATH"
UPWARD_WATER_VAPOUR_PATH_NAME == "UPWARD_WATER_VAPOUR_PATH"

\* example_utils.get_field_from_dict for a vector predictor: the matrix
\* (examples x heights) of the field with this name.
get_field_from_dict(example_dict, field_name) ==
    LET k == CHOOSE k \in 1..Len(example_dict.vector_predictor_names) :
                 example_dict.vector_predictor_names[k] = field_name
    IN  [i \in 1..Len(example_dict.vector_predictor_matrix) |->
            [j \in 1..Len(example_dict.heights_m_agl) |->
                example_dict.vector_predictor_matrix[i][j][k]]]
_get_air_density(example_dict) == example_dict.air_density

\* numpy.cumsum and numpy.fliplr on one row of a matrix
RECURSIVE CumSumTo(_, _)
CumSumTo(row, j) == IF j = 0 THEN 0 ELSE CumSumTo(row, j - 1) + row[j]
CumSum(row) == [j \in 1..Len(row) |-> CumSumTo(row, j)]
Fliplr(row) == [j \in 1..Len(row) |-> row[Len(row) + 1 - j]]
\* numpy.cumsum(x, axis=1), or numpy.fliplr(numpy.cumsum(numpy.fliplr(x),
\* axis=1)) when integrate_upward is False
IntegrateRowUpward(row, integrate_upward) == CumSum(row)
IntegrateRow(row, integrate_upward) ==
    IF integrate_upward THEN CumSum(row) ELSE Fliplr(CumSum(Fliplr(row)))

\* One of the three blocks `if get_lwp:`, `if get_iwp:`, `if get_wvp:`: the
\* path of the content matrix is appended as a new last channel and its name
\* as a new last name.
AppendPath(example_dict, content_matrix, path_name, integrate_upward) ==
    LET grid_cell_widths_metres ==
            get_grid_cell_widths(
                get_grid_cell_edges(example_dict.heights_m_agl))
        path_matrix ==
            [i \in 1..Len(content_matrix) |->
                IntegrateRow(
                    [j \in 1..Len(content_matrix[i]) |->
                        content_matrix[i][j] * grid_cell_widths_metres[j]],
                    integrate_upward)]
    IN  [example_dict EXCEPT
            !.vector_predictor_names = Append(@, path_name),
            !.vector_predictor_matrix =
                [i \in 1..Len(@) |->
                    [j \in 1..Len(@[i]) |->
                        Append(@[i][j], path_matrix[i][j])]]]
VapourContent(example_dict) ==
    LET air_density_matrix_kg_m03 == _get_air_density(example_dict)
        specific_humidity_matrix_kg_kg01 ==
            get_field_from_dict(example_dict, "q")
    IN  [i \in 1..Len(air_density_matrix_kg_m03) |->
            [j \in 1..Len(air_density_matrix_kg_m03[i]) |->
                specific_humidity_matrix_kg_kg01[i][j]
                    * air_density_matrix_kg_m03[i][j]]]
get_water_path_profiles(example_dict, get_lwp_arg, get_iwp_arg, get_wvp_arg, integrate_upward) ==
    LET vector_predictor_names ==
            ElementsOf(example_dict.vector_predictor_names)
        this_liquid_path_name ==
            IF integrate_upward THEN UPWARD_LIQUID_WATER_PATH_NAME
            ELSE LIQUID_WATER_PATH_NAME
        this_ice_path_name ==
            IF integrate_upward THEN UPWARD_ICE_WATER_PATH_NAME
            ELSE ICE_WATER_PATH_NAME
        this_vapour_path_name ==
            IF integrate_upward THEN UPWARD_WATER_VAPOUR_PATH_NAME
            ELSE WATER_VAPOUR_PATH_NAME
        get_lwp ==
            get_lwp_arg /\ this_liquid_path_name \notin vector_predictor_names
        get_iwp ==
            get_iwp_arg /\ this_ice_path_name \notin vector_predictor_names
        get_wvp ==
            get_wvp_arg /\ this_vapour_path_name \notin vector_predictor_names
        with_lwp ==
            IF get_lwp
            THEN AppendPath(example_dict,
                            get_field_from_dict(example_dict, "lwc"),
                            this_liquid_path_name, integrate_upward)
            ELSE example_dict
        with_iwp ==
            IF get_iwp
            THEN AppendPath(with_lwp, get_field_from_dict(with_lwp, "iwc"),
                            this_ice_path_name, integrate_upward)
            ELSE with_lwp
    IN  IF get_wvp
        THEN AppendPath(with_iwp, VapourContent(with_iwp),
                        this_vapour_path_name, integrate_upward)
        ELSE with_iwp

\* Example dictionaries as read_file has them before the paths are added:
\* one or two examples on a grid of two or three heights, with values that
\* differ from cell to cell or with water in the middle level only.
WaterPathHeights == {<<1000, 3000>>, <<10, 30, 70>>}
WaterPathDicts ==
    {[heights_m_agl |-> heights,
      vector_predictor_names |-> DEFAULT_VECTOR_PREDICTOR_NAMES,
      vector_predictor_matrix |->
          [i \in 1..num_examples |->
              [j \in 1..Len(heights) |->
                  [k \in 1..Len(DEFAULT_VECTOR_PREDICTOR_NAMES) |->
                      IF graded THEN 10 * i + 3 * j + k
                      ELSE IF j = 2 THEN k ELSE 0]]],
      air_density |->
          [i \in 1..num_examples |->
              [j \in 1..Len(heights) |-> IF dense THEN 2 ELSE 4 - j]]] :
     heights \in WaterPathHeights, num_examples \in 1..2,
     graded \in BOOLEAN, dense \in BOOLEAN}

WaterPathInit ==
    /\ IdleGenerator
    /\ layout = "None"
    /\ \E example_dict \in WaterPathDicts :
          io = [op |-> "water_path", example_dict |-> example_dict]

\* example_dict = _get_water_path_profiles(example_dict, ...)
GetWaterPathProfiles ==
    /\ io.op = "water_path"
    /\ \E get_lwp \in BOOLEAN, get_iwp \in BOOLEAN, get_wvp \in BOOLEAN,
          integrate_upward \in BOOLEAN :
          io' = [io EXCEPT
                    !.example_dict =
                        get_water_path_profiles(@, get_lwp, get_iwp, get_wvp,
                                                integrate_upward)]
    /\ UNCHANGED <<gen_vars, layout>>

WaterPathNext == GetWaterPathProfiles

WaterPathSpec == WaterPathInit /\ [][WaterPathNext]_vars

\* ---------------------------------------------------------------------------
\* Properties of the layout converters and of concat_examples
\* ---------------------------------------------------------------------------
FirstDict == layout.example_dicts[1]

\* C1: converting the predictors of an example dictionary to a matrix and
\* back returns scalar and vector predictor matrices equal to the original
\* ones, in shape and in every entry, for both layouts and any field counts.
C1_PredictorRoundTrip ==
    (layout.stage = "predictor_dict")
        => /\ layout.result.error = "none"
           /\ layout.result.scalar = FirstDict.scalar_predictor_matrix
           /\ layout.result.vector = FirstDict.vector_predictor_matrix

\* C2: converting the targets of an example dictionary to matrices and back
\* returns scalar and vector target matrices equal to the original ones, for
\* the CNN and dense layouts and both values of use_custom_cnn_loss.
C2_TargetRoundTrip ==
    (layout.stage = "target_dict")
        => /\ layout.result.error = "none"
           /\ layout.result.scalar = FirstDict.scalar_target_matrix
           /\ layout.result.vector = FirstDict.vector_target_matrix

SameSchema(a, b) == NamesMatch(a, b) /\ a.heights_m_agl = b.heights_m_agl

RECURSIVE SumExamples(_, _)
SumExamples(example_dicts, i) ==
    IF i > Len(example_dicts) THEN 0
    ELSE example_dicts[i].valid_times_unix_sec.shape[1]
         + SumExamples(example_dicts, i + 1)

\* C10: for inputs that share name lists and height grid, concat_examples
\* returns a dictionary with the same height grid and name lists, whose value
\* matrices keep their height and field dimensions and have as many rows as
\* all inputs together.
C10_ConcatGrowsOnlyRows ==
    (/\ layout.stage = "concatenated"
     /\ \A i \in 1..Len(layout.example_dicts) :
            SameSchema(FirstDict, layout.example_dicts[i]))
        => /\ layout.result.error = "none"
           /\ LET out == layout.result.example_dict
                  rows == SumExamples(layout.example_dicts, 1)
              IN  /\ out.heights_m_agl = FirstDict.heights_m_agl
                  /\ NamesMatch(out, FirstDict)
                  /\ out.scalar_predictor_matrix.shape =
                         [FirstDict.scalar_predictor_matrix.shape EXCEPT ![1] = rows]
                  /\ out.vector_predictor_matrix.shape =
                         [FirstDict.vector_predictor_matrix.shape EXCEPT ![1] = rows]
                  /\ out.scalar_target_matrix.shape =
                         [FirstDict.scalar_target_matrix.shape EXCEPT ![1] = rows]
                  /\ out.vector_target_matrix.shape =
                         [FirstDict.vector_target_matrix.shape EXCEPT ![1] = rows]

\* C11: concat_examples fails whenever an input differs from the first in one
\* of the four name lists or in its height grid; it never returns a combined
\* dictionary for inputs with different schemas.
C11_ConcatFailsOnSchemaMismatch ==
    (/\ layout.stage = "concatenated"
     /\ \E i \in 1..Len(layout.example_dicts) :
            ~SameSchema(FirstDict, layout.example_dicts[i]))
        => layout.result.error # "none"

\* Field counts of the first dictionary.
NumExamples == FirstDict.vector_predictor_matrix.shape[1]
NumHeights == FirstDict.vector_predictor_matrix.shape[2]
NumVectorPredictors == FirstDict.vector_predictor_matrix.shape[3]
NumScalarPredictors == FirstDict.scalar_predictor_matrix.shape[2]
NumVectorTargets == FirstDict.vector_target_matrix.shape[3]
NumScalarTargets == FirstDict.scalar_target_matrix.shape[2]

\* C12: the CNN predictor matrix has shape (examples, heights, Pv + Ps);
\* channel c < Pv holds vector predictor c of the example at the height, and
\* channel Pv + s holds scalar predictor s of the example at every height.
C12_CnnPredictorLayout ==
    (layout.stage = "predictor_matrix" /\ layout.for_cnn)
        => /\ layout.matrix.shape =
                  <<NumExamples, NumHeights,
                    NumVectorPredictors + NumScalarPredictors>>
           /\ \A e \in 0..(NumExamples - 1), h \in 0..(NumHeights - 1) :
                 /\ \A c \in 0..(NumVectorPredictors - 1) :
                       layout.matrix.val[<<e, h, c>>] =
                           FirstDict.vector_predictor_matrix.val[<<e, h, c>>]
                 /\ \A s \in 0..(NumScalarPredictors - 1) :
                       layout.matrix.val[<<e, h, NumVectorPredictors + s>>] =
                           FirstDict.scalar_predictor_matrix.val[<<e, s>>]

\* Witness of C12: a CNN predictor matrix of several examples and heights with
\* two vector and two scalar predictors.
C12_Witness ==
    /\ layout.stage = "predictor_matrix"
    /\ layout.for_cnn
    /\ NumExamples = 2
    /\ NumHeights = 2
    /\ NumVectorPredictors = 2
    /\ NumScalarPredictors = 2
    /\ layout.matrix.shape = <<2, 2, 4>>

\* The dense layout of a vector matrix (examples x heights x fields) and a
\* scalar matrix (examples x fields): one row per example, column h + H*f
\* holds vector field f at height h, column H*V + s holds scalar field s.
IsDenseLayout(matrix, vector_matrix, scalar_matrix) ==
    LET N == vector_matrix.shape[1]
        H == vector_matrix.shape[2]
        V == vector_matrix.shape[3]
        S == scalar_matrix.shape[2]
    IN  /\ matrix.shape = <<N, H * V + S>>
        /\ \A e \in 0..(N - 1) :
              /\ \A h \in 0..(H - 1), f \in 0..(V - 1) :
                    matrix.val[<<e, h + H * f>>] = vector_matrix.val[<<e, h, f>>]
              /\ \A s \in 0..(S - 1) :
                    matrix.val[<<e, H * V + s>>] = scalar_matrix.val[<<e, s>>]

\* C13: in the dense layout, for predictors and for targets alike, the matrix
\* has one row per example and H*V + S columns; column h + H*f holds vector
\* field f at height h (height varies fastest) and column H*V + s holds scalar
\* field s (scalars last, in name-list order).
C13_DenseLayout ==
    /\ (layout.stage = "predictor_matrix" /\ ~layout.for_cnn)
          => IsDenseLayout(layout.matrix, FirstDict.vector_predictor_matrix,
                           FirstDict.scalar_predictor_matrix)
    /\ (layout.stage = "target_matrices" /\ ~layout.for_cnn)
          => /\ layout.target_list.error = "none"
             /\ Len(layout.target_list.matrices) = 1
             /\ IsDenseLayout(layout.target_list.matrices[1],
                              FirstDict.vector_target_matrix,
                              FirstDict.scalar_target_matrix)

\* Witness of C13: a dense target matrix of two examples, two heights, two
\* vector targets and one scalar target.
C13_Witness ==
    /\ layout.stage = "target_matrices"
    /\ ~layout.for_cnn
    /\ NumExamples = 2
    /\ NumHeights = 2
    /\ NumVectorTargets = 2
    /\ NumScalarTargets = 1
    /\ layout.target_list.matrices[1].shape = <<2, 5>>

\* 0-based channel of a flux in the vector-target names of the first dictionary.
HasVectorTarget(name) ==
    \E i \in 1..Len(FirstDict.vector_target_names) :
        FirstDict.vector_target_names[i] = name
ChannelOf(name) ==
    (CHOOSE i \in 1..Len(FirstDict.vector_target_names) :
         FirstDict.vector_target_names[i] = name) - 1

\* C14: with for_cnn and use_custom_cnn_loss (and both fluxes among the vector
\* targets) targets_dict_to_numpy returns the vector target matrix unchanged
\* and a scalar matrix with Ts + 2 columns: column 0 is the upwelling flux at
\* the highest level, column 1 the downwelling flux at the lowest level, and
\* column 2 + i ordinary scalar target i.  With for_cnn False the flag changes
\* nothing: the result is the one dense target matrix.
C14_ConstrainedCnnTargetLayout ==
    /\ (/\ layout.stage = "target_matrices"
        /\ layout.for_cnn
        /\ layout.use_custom_cnn_loss
        /\ HasVectorTarget(SHORTWAVE_UP_FLUX_NAME)
        /\ HasVectorTarget(SHORTWAVE_DOWN_FLUX_NAME))
          => /\ layout.target_list.error = "none"
             /\ Len(layout.target_list.matrices) = 2
             /\ layout.target_list.matrices[1] = FirstDict.vector_target_matrix
             /\ LET scalar == layout.target_list.matrices[2]
                    vector == FirstDict.vector_target_matrix
                IN  /\ scalar.shape = <<NumExamples, NumScalarTargets + 2>>
                    /\ \A e \in 0..(NumExamples - 1) :
                          /\ scalar.val[<<e, 0>>] =
                                 vector.val[<<e, NumHeights - 1,
                                              ChannelOf(SHORTWAVE_UP_FLUX_NAME)>>]
                          /\ scalar.val[<<e, 1>>] =
                                 vector.val[<<e, 0,
                                              ChannelOf(SHORTWAVE_DOWN_FLUX_NAME)>>]
                          /\ \A i \in 0..(NumScalarTargets - 1) :
                                scalar.val[<<e, 2 + i>>] =
                                    FirstDict.scalar_target_matrix.val[<<e, i>>]
    /\ (/\ layout.stage = "target_matrices"
        /\ ~layout.for_cnn
        /\ layout.use_custom_cnn_loss)
          => /\ layout.target_list.error = "none"
             /\ Len(layout.target_list.matrices) = 1
             /\ IsDenseLayout(layout.target_list.matrices[1],
                              FirstDict.vector_target_matrix,
                              FirstDict.scalar_target_matrix)

\* Witness of C14: constrained CNN targets of two examples at two heights with
\* both fluxes and two scalar targets.
C14_Witness ==
    /\ layout.stage = "target_matrices"
    /\ layout.for_cnn
    /\ layout.use_custom_cnn_loss
    /\ layout.target_list.error = "none"
    /\ NumExamples = 2
    /\ NumHeights = 2
    /\ NumScalarTargets = 2
    /\ layout.target_list.matrices[2].shape = <<2, 4>>

\* The network's scalar output for the whole predictor matrix of the state.
ModelScalarOutput ==
    Predict(layout.matrix, NumVectorTargets,
            NumScalarOutputs(NumScalarTargets, layout.used_custom_loss)).scalar

\* C15: with used_custom_loss apply_cnn returns the scalar predictions without
\* the two leading boundary-condition columns: column i of the result is the
\* network's output 2 + i, the prediction for ordinary scalar target i;
\* without it the result is the network's scalar output, all columns intact.
C15_ApplyCnnStripsBoundaryColumns ==
    (layout.stage = "predictions")
        => IF layout.used_custom_loss
           THEN /\ layout.result.scalar.shape = <<NumExamples, NumScalarTargets>>
                /\ \A e \in 0..(NumExamples - 1),
                      i \in 0..(NumScalarTargets - 1) :
                      layout.result.scalar.val[<<e, i>>] =
                          ModelScalarOutput.val[<<e, 2 + i>>]
           ELSE layout.result.scalar = ModelScalarOutput

\* Witness of C15: predictions of a custom-loss network for two examples and
\* two scalar targets, boundary columns stripped.
C15_Witness ==
    /\ layout.stage = "predictions"
    /\ layout.used_custom_loss
    /\ NumExamples = 2
    /\ NumScalarTargets = 2
    /\ ModelScalarOutput.shape = <<2, 4>>
    /\ layout.result.scalar.shape = <<2, 2>>

\* ---------------------------------------------------------------------------
\* Properties of the generators
\* ---------------------------------------------------------------------------
BatchSize == option_dict.num_examples_per_batch

\* The in-window examples of the listed files, in file order and then in
\* within-file order, as <<file, ex>> pairs.
RECURSIVE InWindowExamplesFrom(_)
InWindowExamplesFrom(f) ==
    IF f > Len(disk) THEN <<>>
    ELSE create_example_ids(
             subset_by_time(RowsOfSlice(f, 0, Len(disk[f])),
                            option_dict.first_time_unix_sec,
                            option_dict.last_time_unix_sec))
         \o InWindowExamplesFrom(f + 1)

InWindowExamples == InWindowExamplesFrom(1)

ExamplesOfRows(rows) == [j \in 1..Len(rows) |-> <<rows[j].file, rows[j].ex>>]

\* C3: in training mode every request for a batch eventually yields, whatever
\* the files and the time window (also when no example is in the window).
C3_TrainingRequestEventuallyYields ==
    (~for_inference /\ pc = "outer") ~> (pc = "suspended")

\* C4: in inference mode, once the generator is exhausted, the batches it
\* yielded hold exactly the in-window examples of the listed files, each once,
\* in file order and then within-file order.
C4_InferenceYieldsEachInWindowExampleOnce ==
    (for_inference /\ pc = "stopped")
        => ExamplesOfRows(all_rows) = InWindowExamples

\* C5: in inference mode the generator terminates, the file index never
\* decreases or wraps, and a file is left only after it has been walked from
\* its first example to its last (the last slice read from it reached the end
\* of the file).
C5_InferenceWalksEachFileOnceAndStops ==
    /\ [][for_inference /\ file_index' # file_index
            => /\ file_index' = file_index + 1
               /\ example_index + (BatchSize - num_examples_in_memory)
                      >= Len(disk[example_file_names[file_index + 1]])
         ]_vars
    /\ <>(for_inference => pc \in {"stopped", "args_error", "files_error"})

\* C6: in training mode every yielded batch has exactly num_examples_per_batch
\* rows in the predictor matrix and in the target matrix.
C6_TrainingBatchHasExactlyBatchSizeRows ==
    (~for_inference /\ ~yielded.none)
        => /\ Len(yielded.predictor_matrix) = BatchSize
           /\ Len(yielded.target_matrix) = BatchSize

\* Witness of C6: a training batch was yielded after reading two files.
C6_Witness ==
    /\ ~for_inference
    /\ pc = "suspended"
    /\ num_yields = 1
    /\ Len(disk) = 2
    /\ file_index = 2
    /\ Len(yielded.predictor_matrix) = BatchSize

\* C7: an inference generator whose batch size exceeds the number of available
\* (in-window) examples yields exactly one batch, shorter than the batch size,
\* and then stops.
C7_OversizedBatchYieldsOnePartialBatch ==
    (for_inference /\ pc = "stopped" /\ BatchSize > Len(InWindowExamples))
        => /\ num_yields = 1
           /\ Len(yielded.predictor_matrix) < BatchSize

\* C8: the options are accepted in training mode exactly when the batch size
\* is >= 32 and in inference mode for every batch size >= 1.
C8_BatchSizeValidationDependsOnMode ==
    (pc # "check_args")
        => ((pc # "args_error")
                <=> IF for_inference THEN BatchSize >= 1
                                     ELSE BatchSize >= MIN_BATCH_SIZE)

\* C9: in inference mode every yield carries one ID per row of the predictor
\* and target matrices, and the i-th ID identifies the example in row i.
C9_IdsAlignedWithRows ==
    (for_inference /\ ~yielded.none)
        => /\ yielded.has_ids
           /\ Len(yielded.example_id_strings) = Len(yielded.predictor_matrix)
           /\ Len(yielded.example_id_strings) = Len(yielded.target_matrix)
           /\ ExamplesOfRows(yielded.predictor_matrix) = yielded.example_id_strings
           /\ ExamplesOfRows(yielded.target_matrix) = yielded.example_id_strings

\* Witness of C9: an inference batch assembled from several reads of two files.
C9_Witness ==
    /\ for_inference
    /\ pc = "suspended"
    /\ \E i, j \in 1..Len(yielded.predictor_matrix) :
          yielded.predictor_matrix[i].file # yielded.predictor_matrix[j].file
    /\ Len(yielded.example_id_strings) = Len(yielded.predictor_matrix)

\* C20: in training mode the k-th example-file read of the run (k counted from
\* 0 across all batches) is of file k mod n, where n is the number of files;
\* the position in the file list changes only by moving on to the next file
\* after a read or by going back to the first file once the last file has
\* been read.
C20_TrainingReadsFilesRoundRobin ==
    [][(~for_inference /\ pc \notin {"check_args", "read_norm", "find_files"})
          => /\ (pc = "read") => (file_index = num_reads_mod_n)
             /\ (file_index' # file_index)
                   => \/ /\ pc = "read"
                         /\ file_index' = file_index + 1
                      \/ /\ file_index = Len(example_file_names)
                         /\ file_index' = 0]_vars

\* Witness of C20: the second batch of a two-file run starts by reading the
\* second file, after the first batch took one read of the first file.
C20_Witness ==
    /\ ~for_inference
    /\ pc = "read"
    /\ Len(example_file_names) = 2
    /\ num_yields = 1
    /\ num_examples_in_memory = 0
    /\ file_index = 1
    /\ num_reads_mod_n = 1

\* ---------------------------------------------------------------------------
\* Properties of file input and output
\* ---------------------------------------------------------------------------
PredictionArgs == io.args
PredictionDict == io.prediction_dict

\* C16: a prediction file written with model file name m and isotonic-model
\* file name c is read back with model file name m and, when c is a non-empty
\* string, isotonic-model file name c; a file written with isotonic-model
\* file name None is read back with None.
C16_ProvenanceRoundTrip ==
    (io.op = "predictions" /\ io.stage = "read")
        => /\ PredictionDict[MODEL_FILE_KEY] = PredictionArgs.model_file_name
           /\ PredictionArgs.isotonic_model_file_name.none
                  => PredictionDict[ISOTONIC_MODEL_FILE_KEY] = PyNone
           /\ (/\ ~PredictionArgs.isotonic_model_file_name.none
               /\ PredictionArgs.isotonic_model_file_name.str # "")
                  => PredictionDict[ISOTONIC_MODEL_FILE_KEY] =
                         PredictionArgs.isotonic_model_file_name

\* The name a file finder is expected to return: directory, the module's
\* file-name stem and the four decimal digits of a year between 0 and 9999.
FourDigits(year) ==
    ToString(year \div 1000) \o ToString((year \div 100) % 10)
        \o ToString((year \div 10) % 10) \o ToString(year % 10)
ExpectedPath ==
    io.args.directory_name
        \o (IF io.args.module = "example_io"
            THEN "/radiative_transfer_examples_" ELSE "/rrtm_output_")
        \o FourDigits(io.args.year) \o ".nc"

\* C19: find_file returns the path made of the directory and the zero-padded
\* year, whatever is on disk; if that file is missing it raises an error when
\* raise_error_if_missing is True and returns the expected path when it is
\* False; if the file exists it returns the path in both modes.
C19_FindFile ==
    (io.op = "find_file" /\ io.stage = "returned")
        => IF ExpectedPath \notin io.args.files
              /\ io.args.raise_error_if_missing
           THEN io.result.error = "ValueError"
           ELSE /\ io.result.error = "none"
                /\ io.result.file_name = ExpectedPath

\* Witness of C19: the file of year 5 is missing, another year's file is
\* there, and the call without raise_error_if_missing returned the
\* zero-padded path.
C19_Witness ==
    /\ io.op = "find_file"
    /\ io.stage = "returned"
    /\ io.args.year = 5
    /\ ~io.args.raise_error_if_missing
    /\ io.args.files = {ExampleFileName(io.args.directory_name, 2021)}
    /\ io.result.error = "none"
    /\ io.result.file_name = "rrtm/rrtm_output_0005.nc"

\* The examples of the RRTM file read, as stored: example i has a value at or
\* above 1e30 in some scalar variable or at some height of a vector variable.
RrtmFile == io.args.file
StoredBad(i) ==
    \/ \E name \in RrtmScalarVariables :
           RrtmFile.values[i][name] >= MIN_BAD_VALUE
    \/ \E name \in RrtmVectorVariables :
           \E j \in 1..Len(RrtmFile.height) :
               RrtmFile.values[i][name][j] >= MIN_BAD_VALUE
\* Row r of the dictionary returned is the file's example i in every
\* per-example field (the times of the file's examples are all different).
SameExample(example_dict, r, i) ==
    LET all == ReadVariables(RrtmFile)
    IN  /\ example_dict.valid_times[r] = RrtmFile.time[i]
        /\ example_dict.standard_atmo_flags[r] = RrtmFile.stdatmos[i]
        /\ example_dict.example_id_strings[r] = all.example_id_strings[i]
        /\ example_dict.scalar_predictor_matrix[r] =
               all.scalar_predictor_matrix[i]
        /\ example_dict.vector_predictor_matrix[r] =
               all.vector_predictor_matrix[i]
        /\ example_dict.scalar_target_matrix[r] = all.scalar_target_matrix[i]
        /\ example_dict.vector_target_matrix[r] = all.vector_target_matrix[i]
GoodExamples ==
    SelectSeq([i \in 1..Len(RrtmFile.time) |-> i], LAMBDA i : ~StoredBad(i))

\* C17: a read with allow_bad_values=True does not fail and returns exactly
\* the examples of the file none of whose stored values is at or above 1e30,
\* in the file's order, every per-example field holding the same example in
\* the same row.
C17_PermissiveReadDropsBadExamples ==
    (io.op = "rrtm_read_file" /\ io.stage = "returned"
         /\ io.args.allow_bad_values)
        => /\ io.result.error = "none"
           /\ Len(io.result.example_dict.valid_times) = Len(GoodExamples)
           /\ \A r \in 1..Len(GoodExamples) :
                  SameExample(io.result.example_dict, r, GoodExamples[r])

\* C18: a read with allow_bad_values=False of a file in which some example
\* has a value at or above 1e30 fails with an error; it returns no
\* collection that contains such an example.
C18_StrictReadFailsOnBadValues ==
    (io.op = "rrtm_read_file" /\ io.stage = "returned"
         /\ ~io.args.allow_bad_values)
        => ((\E i \in 1..Len(RrtmFile.time) : StoredBad(i))
                => io.result.error # "none")

\* ---------------------------------------------------------------------------
\* Further properties of the generators
\* ---------------------------------------------------------------------------
\* C21: the normalization file is read exactly once per generator, before the
\* example files are found and read; every read of an example file, in every
\* batch, is given the collection read then, which never changes afterwards.
C21_NormalizationFileReadOnce ==
    [][/\ (num_norm_reads' # num_norm_reads)
           => /\ num_norm_reads = 0
              /\ num_norm_reads' = 1
              /\ example_file_names = <<>>
              /\ num_yields = 0
       /\ (pc = "read")
           => /\ num_norm_reads = 1
              /\ training_example_dict = "reference"
       /\ (training_example_dict # "None")
           => (training_example_dict' = training_example_dict)]_vars

\* Witness of C21: a read of the second file for the second batch, still
\* after one read of the normalization file.
C21_Witness ==
    /\ pc = "read"
    /\ num_yields = 1
    /\ file_index = 1
    /\ num_norm_reads = 1
    /\ training_example_dict = "reference"

\* ---------------------------------------------------------------------------
\* Properties of the prediction dictionaries
\* ---------------------------------------------------------------------------
\* Some dictionary given to concat_predictions differs from the first in a
\* model file name or by more than 1e-6 m in a height.
DiffersFromFirst(prediction_dicts) ==
    \E i \in 2..Len(prediction_dicts) :
        \/ prediction_dicts[i][MODEL_FILE_KEY]
               # prediction_dicts[1][MODEL_FILE_KEY]
        \/ prediction_dicts[i][ISOTONIC_MODEL_FILE_KEY]
               # prediction_dicts[1][ISOTONIC_MODEL_FILE_KEY]
        \/ Len(prediction_dicts[i][HEIGHTS_KEY])
               # Len(prediction_dicts[1][HEIGHTS_KEY])
        \/ \E j \in 1..Len(prediction_dicts[1][HEIGHTS_KEY]) :
               Abs(prediction_dicts[i][HEIGHTS_KEY][j]
                       - prediction_dicts[1][HEIGHTS_KEY][j]) > TOLERANCE
\* The entries `key` of the dictionaries from the i-th on, joined in order.
RECURSIVE JoinedFrom(_, _, _)
JoinedFrom(prediction_dicts, key, i) ==
    IF i > Len(prediction_dicts) THEN <<>>
    ELSE prediction_dicts[i][key] \o JoinedFrom(prediction_dicts, key, i + 1)

\* C22: concat_predictions raises ValueError when an input differs from the
\* first in a model file name or by more than 1e-6 in its heights; otherwise
\* it returns one dictionary whose per-example entries are those of the
\* inputs joined in input order; the inputs are the same after the call.
C22_ConcatPredictions ==
    (io.op = "records" /\ io.stage = "concat_predictions")
        => /\ io.after = io.before
           /\ IF DiffersFromFirst(io.before)
              THEN io.error = "ValueError"
              ELSE /\ io.error = "none"
                   /\ \A k \in 1..Len(ONE_PER_EXAMPLE_KEYS) :
                          io.prediction_dicts[1][ONE_PER_EXAMPLE_KEYS[k]]
                              = JoinedFrom(io.before,
                                           ONE_PER_EXAMPLE_KEYS[k], 1)

\* The four matrices of a prediction dictionary.
PredictionMatrixKeys ==
    {SCALAR_TARGETS_KEY, SCALAR_PREDICTIONS_KEY, VECTOR_TARGETS_KEY,
     VECTOR_PREDICTIONS_KEY}
\* Row i of each matrix is the row written for the example whose ID is the
\* i-th example ID, and every matrix has as many rows as there are IDs.
Aligned(prediction_dict) ==
    \A key \in PredictionMatrixKeys :
        /\ Len(prediction_dict[key]) = Len(prediction_dict[EXAMPLE_IDS_KEY])
        /\ \A i \in 1..Len(prediction_dict[key]) :
              prediction_dict[key][i]
                  = <<key, prediction_dict[EXAMPLE_IDS_KEY][i]>>
SubsetStages ==
    {"subset_by_index", "subset_by_standard_atmo", "subset_by_zenith_angle",
     "subset_by_month"}
SameGridAndModels(dict_before, dict_after) ==
    /\ dict_after[HEIGHTS_KEY] = dict_before[HEIGHTS_KEY]
    /\ dict_after[MODEL_FILE_KEY] = dict_before[MODEL_FILE_KEY]
    /\ dict_after[ISOTONIC_MODEL_FILE_KEY]
           = dict_before[ISOTONIC_MODEL_FILE_KEY]
AlignedStep ==
    (io'.op = "records")
        => /\ \A k \in 1..Len(io'.prediction_dicts) :
                  Aligned(io'.prediction_dicts[k])
           /\ (io'.stage \in SubsetStages)
                  => /\ Len(io'.prediction_dicts) = Len(io.prediction_dicts)
                     /\ \A k \in 1..Len(io.prediction_dicts) :
                            SameGridAndModels(io.prediction_dicts[k],
                                              io'.prediction_dicts[k])

\* C28: after every subset function and every concat_predictions, in each
\* prediction dictionary the four matrices and the example IDs have the same
\* number of rows and row i of each matrix belongs to the example of the i-th
\* ID; a subset function leaves the heights and the two model file names of
\* every dictionary as they were.
C28_PredictionRecordsStayAligned == [][AlignedStep]_vars
\* A dictionary joined from two inputs and then reduced to the examples of
\* January: its two rows come from different input dictionaries.
C28_Witness ==
    /\ io.op = "records"
    /\ io.stage = "subset_by_month"
    /\ io.error = "none"
    /\ Len(io.prediction_dicts) = 1
    /\ io.prediction_dicts[1][EXAMPLE_IDS_KEY]
           = <<ExampleId(0, 0, 1), ExampleId(86400, 1571, 1)>>
    /\ Len(io.prediction_dicts[1][VECTOR_PREDICTIONS_KEY]) = 2

\* ---------------------------------------------------------------------------
\* Properties of train_neural_net
\* ---------------------------------------------------------------------------
\* The keys whose values the validation generator takes from the validation
\* options given.
KeysOfValidation ==
    {"example_dir_name", "num_examples_per_batch", "first_time_unix_sec",
     "last_time_unix_sec"}

\* C23: once train_neural_net has built the options of the validation
\* generator, they have the keys of the training options (defaults
\* included) and the same value for every key except example_dir_name,
\* num_examples_per_batch, first_time_unix_sec and last_time_unix_sec, which
\* have the values given in validation_option_dict; the training options are
\* after the merge what they were before it.
C23_ValidationOptionsMerge ==
    (io.op = "train" /\ io.stage \in {"merged", "validation_checked"})
        => /\ io.training_option_dict
                  = io.given_training @@ DEFAULT_GENERATOR_OPTION_DICT
           /\ (io.stage = "validation_checked")
                  => /\ DOMAIN io.validation_option_dict
                            = DOMAIN io.training_option_dict
                     /\ \A key \in DOMAIN io.training_option_dict :
                            io.validation_option_dict[key]
                                = IF key \in KeysOfValidation
                                  THEN io.given_validation[key]
                                  ELSE io.training_option_dict[key]
\* Validation options given with heights, a normalization file and a time
\* window of their own, training options with the default heights.
C23_Witness ==
    /\ io.op = "train"
    /\ io.stage = "validation_checked"
    /\ HEIGHTS_KEY \notin DOMAIN io.given_training
    /\ HEIGHTS_KEY \in DOMAIN io.given_validation
    /\ NORMALIZATION_FILE_KEY \in DOMAIN io.given_validation
    /\ io.given_validation[LAST_TIME_KEY] = 200
    /\ io.validation_option_dict[HEIGHTS_KEY]
           = "example_io.DEFAULT_HEIGHTS_M_AGL"
    /\ io.validation_option_dict[NORMALIZATION_FILE_KEY] = "training_norm.nc"
    /\ io.validation_option_dict[LAST_TIME_KEY] = 200

\* ---------------------------------------------------------------------------
\* Properties of the batches of an inference generator
\* ---------------------------------------------------------------------------
\* C24: in inference mode every yielded batch has at least one example row,
\* also when the number of examples is a multiple of the batch size and when
\* the last file ends at a batch boundary.
C24_InferenceBatchNeverEmpty ==
    (for_inference /\ ~yielded.none) => Len(yielded.predictor_matrix) >= 1

\* A batch just yielded in inference mode is no longer than the batch size,
\* and shorter only at the end of the file list; after a short batch nothing
\* more is yielded.
ShortBatch == for_inference /\ ~yielded.none /\ Len(yielded.predictor_matrix) < BatchSize
InferenceBatchStep ==
    /\ (for_inference /\ ~yielded'.none)
           => /\ Len(yielded'.predictor_matrix) <= BatchSize
              /\ (Len(yielded'.predictor_matrix) < BatchSize)
                     => file_index' = Len(example_file_names')
    /\ ShortBatch => (yielded' = yielded /\ num_yields' = num_yields)

\* C25: in inference mode every yielded batch has at most
\* num_examples_per_batch rows; a batch with fewer rows is yielded only when
\* the file list is exhausted, and nothing is yielded after it, so every
\* batch but the last has exactly num_examples_per_batch rows.
C25_InferenceBatchSizes == [][InferenceBatchStep]_vars
\* A full batch followed by a short batch of at least one row, after which
\* the generator has stopped.
C25_Witness ==
    /\ for_inference
    /\ pc = "stopped"
    /\ num_yields = 2
    /\ Len(all_rows) > BatchSize
    /\ Len(yielded.predictor_matrix) >= 1
    /\ Len(yielded.predictor_matrix) < BatchSize

\* ---------------------------------------------------------------------------
\* Properties of apply_cnn and apply_dense_net
\* ---------------------------------------------------------------------------
RECURSIVE Flatten(_)
Flatten(lists) ==
    IF lists = <<>> THEN <<>> ELSE Head(lists) \o Flatten(Tail(lists))
BatchSizeInEffect ==
    IF io.batch_size_given = -1 \/ io.batch_size_given > Len(io.predictor_matrix)
    THEN Len(io.predictor_matrix) ELSE io.batch_size_given

\* C26: for a predictor matrix of N >= 1 examples and an accepted batch size
\* (None, meaning N, or an integer >= 100, capped at N), the index ranges the
\* model was applied to are consecutive, do not overlap and together are
\* 0..N-1, none is longer than the batch size in effect, and each returned
\* prediction matrix has N rows, row i being the prediction for example i.
C26_ApplyPartitionsExamples ==
    (io.op = "apply" /\ io.stage = "returned")
        => LET num_examples == Len(io.predictor_matrix)
           IN  /\ Flatten(io.calls) = [k \in 1..num_examples |-> k - 1]
               /\ \A c \in 1..Len(io.calls) :
                      /\ Len(io.calls[c]) >= 1
                      /\ Len(io.calls[c]) <= BatchSizeInEffect
               /\ IF io.is_cnn
                  THEN /\ io.vector_prediction_matrix
                              = [k \in 1..num_examples |->
                                    <<"vector", io.predictor_matrix[k]>>]
                       /\ io.scalar_prediction_matrix
                              = [k \in 1..num_examples |->
                                    <<io.predictor_matrix[k]>>]
                  ELSE io.prediction_matrix
                           = [k \in 1..num_examples |->
                                 <<io.predictor_matrix[k]>>]
\* A dense net applied to 201 examples in batches of 100, 100 and 1.
C26_Witness ==
    /\ io.op = "apply"
    /\ io.stage = "returned"
    /\ ~io.is_cnn
    /\ Len(io.calls) = 3
    /\ Len(io.calls[1]) = MIN_INFERENCE_BATCH_SIZE
    /\ Len(io.calls[3]) = 1
    /\ Len(io.prediction_matrix) = 2 * MIN_INFERENCE_BATCH_SIZE + 1

\* ---------------------------------------------------------------------------
\* Further properties of concat_examples
\* ---------------------------------------------------------------------------
\* The per-example fields of an example dictionary.
PerExampleFields(example_dict) ==
    <<example_dict.scalar_predictor_matrix,
      example_dict.vector_predictor_matrix,
      example_dict.scalar_target_matrix, example_dict.vector_target_matrix,
      example_dict.valid_times_unix_sec, example_dict.standard_atmo_flags>>
\* The rows of array `part` are the rows of array `whole` from row `offset`.
RowsAt(whole, offset, part) ==
    \A idx \in Indices(part.shape) :
        LET moved == [idx EXCEPT ![1] = idx[1] + offset]
        IN  moved \in DOMAIN whole.val /\ whole.val[moved] = part.val[idx]
ConcatKeepsRows ==
    (layout'.stage = "concatenated")
        => /\ layout'.example_dicts = layout.example_dicts
           /\ (layout'.result.error = "none")
                  => \A f \in 1..6 :
                        /\ PerExampleFields(layout'.result.example_dict)[f]
                               .shape[1]
                               = SumExamples(layout.example_dicts, 1)
                        /\ \A d \in 1..Len(layout.example_dicts) :
                              RowsAt(
                                  PerExampleFields(
                                      layout'.result.example_dict)[f],
                                  SumExamples(layout.example_dicts, 1)
                                      - SumExamples(layout.example_dicts, d),
                                  PerExampleFields(layout.example_dicts[d])[f])

\* C27: in the result of concat_examples every per-example field (the four
\* value matrices, the valid times, the standard-atmosphere flags) has the
\* rows of the first input, then those of the second, and so on, each in
\* their order, and no other row; the inputs are the same after the call.
C27_ConcatKeepsRowsInOrder == [][ConcatKeepsRows]_vars
\* Three dictionaries with examples, joined.
C27_Witness ==
    /\ layout.stage = "concatenated"
    /\ layout.result.error = "none"
    /\ Len(layout.example_dicts) = 3
    /\ \A d \in 1..3 :
          layout.example_dicts[d].valid_times_unix_sec.shape[1] >= 1
    /\ layout.result.example_dict.valid_times_unix_sec.shape[1] >= 4
    /\ layout.result.example_dict.scalar_predictor_matrix.shape[2] >= 1

\* ---------------------------------------------------------------------------
\* Properties of rrtm_io.find_many_files
\* ---------------------------------------------------------------------------
WantedYears ==
    {y \in 1970..1973 :
        /\ 31536000 * (y - 1970) + (IF y > 1972 THEN 86400 ELSE 0)
               <= io.args.last_time_unix_sec
        /\ 31536000 * (y - 1969) + (IF y >= 1972 THEN 86400 ELSE 0)
               > io.args.first_time_unix_sec}
ExistingYears ==
    {y \in WantedYears : RrtmFileName(io.args.directory_name, y) \in io.args.files}
MustRaise ==
    \/ io.args.raise_error_if_any_missing /\ ExistingYears # WantedYears
    \/ io.args.raise_error_if_all_missing /\ ExistingYears = {}

\* C29: without test_mode, rrtm_io.find_many_files raises an error if a year
\* between the year of first_time_unix_sec and the year of last_time_unix_sec
\* has no file and raise_error_if_any_missing is set, or if none has a file
\* and raise_error_if_all_missing is set; otherwise it returns the paths of
\* exactly the years of that range whose file exists, each once, in
\* ascending order of the year, and no path that is not a file.
C29_FindManyFiles ==
    (io.op = "find_many_files" /\ io.stage = "returned" /\ ~io.args.test_mode)
        => /\ MustRaise => io.result.error # "none"
           /\ (~MustRaise /\ io.args.first_time_unix_sec
                                 <= io.args.last_time_unix_sec)
                  => io.result.error = "none"
           /\ (io.result.error = "none")
                  => LET names == io.result.rrtm_file_names
                     IN  /\ Len(names) = Cardinality(ExistingYears)
                         /\ \A k \in 1..Len(names) : names[k] \in io.args.files
                         /\ \A y \in ExistingYears :
                                \E k \in 1..Len(names) :
                                    names[k] = RrtmFileName(
                                                   io.args.directory_name, y)
                         /\ \A j, k \in 1..Len(names) :
                                (j < k) =>
                                    \E y1, y2 \in ExistingYears :
                                        /\ y1 < y2
                                        /\ names[j] = RrtmFileName(
                                               io.args.directory_name, y1)
                                        /\ names[k] = RrtmFileName(
                                               io.args.directory_name, y2)
\* The years 1970 to 1972 asked for, the file of 1971 missing, the files of
\* 1970 and 1972 returned.
C29_Witness ==
    /\ io.op = "find_many_files"
    /\ io.stage = "returned"
    /\ ~io.args.test_mode
    /\ ~io.args.raise_error_if_any_missing
    /\ io.args.first_time_unix_sec = 0
    /\ io.args.last_time_unix_sec = 94694399
    /\ io.args.files = {RrtmFileName("rrtm", 1970), RrtmFileName("rrtm", 1972),
                        RrtmFileName("rrtm", 1973)}
    /\ io.result.error = "none"
    /\ io.result.rrtm_file_names
           = <<"rrtm/rrtm_output_1970.nc", "rrtm/rrtm_output_1972.nc">>

\* ---------------------------------------------------------------------------
\* Properties of the water-path profiles
\* ---------------------------------------------------------------------------
RECURSIVE SumOfLevels(_, _, _)
SumOfLevels(row, lo, hi) ==
    IF lo > hi THEN 0 ELSE row[lo] + SumOfLevels(row, lo + 1, hi)
WaterDict == io.example_dict
WaterNames == WaterDict.vector_predictor_names
ChannelsOf(name) == {k \in 1..Len(WaterNames) : WaterNames[k] = name}
CellWidths == get_grid_cell_widths(get_grid_cell_edges(WaterDict.heights_m_agl))
ContentChannel(path_name) ==
    IF path_name \in {"LIQUID_WATER_PATH", "UPWARD_LIQUID_WATER_PATH"} THEN 4
    ELSE IF path_name \in {"ICE_WATER_PATH", "UPWARD_ICE_WATER_PATH"} THEN 5
    ELSE 3
\* content[m] * width[m] of example i, for the content a path integrates
ContentTimesWidth(path_name, i) ==
    [m \in 1..Len(WaterDict.heights_m_agl) |->
        WaterDict.vector_predictor_matrix[i][m][ContentChannel(path_name)]
            * (IF ContentChannel(path_name) = 3
               THEN WaterDict.air_density[i][m] ELSE 1)
            * CellWidths[m]]
DownwardPathNames ==
    {"LIQUID_WATER_PATH", "ICE_WATER_PATH", "WATER_VAPOUR_PATH"}
UpwardPathNames ==
    {"UPWARD_LIQUID_WATER_PATH", "UPWARD_ICE_WATER_PATH",
     "UPWARD_WATER_VAPOUR_PATH"}

\* C30: a top-down water path at level j is the sum over the levels k >= j of
\* content[k] * width[k], a bottom-up path the sum over the levels k <= j, so
\* that the top-down value at the lowest level is the bottom-up value at the
\* highest; no path name occurs twice in the vector-predictor names, and
\* there are as many names as channels in the vector-predictor matrix.
C30_WaterPathProfiles ==
    (io.op = "water_path")
        => LET num_heights == Len(WaterDict.heights_m_agl)
               matrix == WaterDict.vector_predictor_matrix
           IN  /\ \A name \in DownwardPathNames \cup UpwardPathNames :
                      Cardinality(ChannelsOf(name)) <= 1
               /\ \A i \in 1..Len(matrix), j \in 1..num_heights :
                      /\ Len(matrix[i][j]) = Len(WaterNames)
                      /\ \A name \in DownwardPathNames :
                             \A k \in ChannelsOf(name) :
                                 matrix[i][j][k]
                                     = SumOfLevels(ContentTimesWidth(name, i),
                                                   j, num_heights)
                      /\ \A name \in UpwardPathNames :
                             \A k \in ChannelsOf(name) :
                                 matrix[i][j][k]
                                     = SumOfLevels(ContentTimesWidth(name, i),
                                                   1, j)
               /\ \A i \in 1..Len(matrix) :
                      \A kd \in ChannelsOf("LIQUID_WATER_PATH"),
                         ku \in ChannelsOf("UPWARD_LIQUID_WATER_PATH") :
                          matrix[i][1][kd] = matrix[i][num_heights][ku]
\* All six paths added, as read_file does, on a grid of three levels of
\* different widths; the two liquid-water paths differ in the middle level.
C30_Witness ==
    /\ io.op = "water_path"
    /\ WaterNames = DEFAULT_VECTOR_PREDICTOR_NAMES
           \o <<"LIQUID_WATER_PATH", "ICE_WATER_PATH", "WATER_VAPOUR_PATH",
                "UPWARD_LIQUID_WATER_PATH", "UPWARD_ICE_WATER_PATH",
                "UPWARD_WATER_VAPOUR_PATH">>
    /\ WaterDict.heights_m_agl = <<10, 30, 70>>
    /\ Len(WaterDict.vector_predictor_matrix) = 2
    /\ WaterDict.vector_predictor_matrix[2][2][6]
           # WaterDict.vector_predictor_matrix[2][2][9]
    /\ WaterDict.vector_predictor_matrix[2][1][6]
           = WaterDict.vector_predictor_matrix[2][3][9]
    /\ WaterDict.vector_predictor_matrix[2][1][6] > 0

====
